---- MODULE Spec2Model ----
(***************************************************************************)
(* Air-quality dashboard: the AQI derivation of data_collector.py and the  *)
(* forecasting pipeline of ml_models.py, as state machines.                *)
(*                                                                         *)
(* Numbers.  Concentrations are exact multiples of 1/(10*UnitsPerTenth)    *)
(* ug/m3, held as integers.  An AQI value is an exact rational in mixed    *)
(* form [w, n, d] = w + n/d, 0 <= n < d, n/d in lowest terms, so equal     *)
(* values are equal records.                                               *)
(***************************************************************************)
EXTENDS Integers, Sequences, FiniteSets, TLC

VARIABLES
    pc,         \* where the machine in use stands
    row,        \* the row handed to _calculate_aqi: pollutant -> reading
    aqi,        \* what _calculate_aqi returned for it
    subIn,      \* a pair of get_aqi_value calls: [pollutant, c1, c2]
    subOut,     \* their results <<s1, s2>>
    df,         \* the table handed to prepare_features
    df2,        \* a second table, equal to df up to some sorted position
    prepared,   \* what prepare_features returned for df
    prepared2,  \* what prepare_features returned for df2
    rf_model,           \* AirQualityPredictor.rf_model
    scaler,             \* AirQualityPredictor.scaler
    feature_columns,    \* AirQualityPredictor.feature_columns
    is_trained,         \* AirQualityPredictor.is_trained
    last_trained,       \* the feature schema of the last training that succeeded
    arima_model,        \* AirQualityPredictor.arima_model
    arima_fitted,       \* AirQualityPredictor.arima_fitted
    succeeded,          \* the training operations that have succeeded so far
    call,               \* the call in progress or just returned, and its outcome
    files,              \* the files save_models has written under the prefix
    hin,                \* the arguments drawn for a HealthRiskAnalyzer method
    hout,               \* what the method returned for them
    request,            \* the city and the API answer drawn for a DataCollector method
    response,           \* the rows the method returned for them
    measurements,       \* the committed rows of air_quality_measurements
    save                \* the save_air_quality_measurement call and its outcome

aqiVars == <<row, aqi, subIn, subOut>>
featVars == <<df, df2, prepared, prepared2>>
selfVars == <<rf_model, scaler, feature_columns, is_trained, last_trained>>
healthVars == <<hin, hout>>
collectorVars == <<request, response>>
arimaVars == <<arima_model, arima_fitted>>
dbVars == <<measurements, save>>
modelVars == <<rf_model, scaler, feature_columns, is_trained, last_trained,
               arima_model, arima_fitted, succeeded, call, files>>
vars == <<pc, row, aqi, subIn, subOut, df, df2, prepared, prepared2,
          rf_model, scaler, feature_columns, is_trained, last_trained,
          arima_model, arima_fitted, succeeded, call, files, hin, hout,
          request, response, measurements, save>>

(***************************************************************************)
(* Bounds of the model.                                                    *)
(***************************************************************************)
\* grid units per 0.1 ug/m3: 2 puts one reading inside every 0.1-wide gap
UnitsPerTenth == 2
\* how many grid units around every bracket end are drawn as readings
NearSteps == 1
\* the longest table drawn (the warm-up is 24 rows)
MaxRows == 27
\* cell values of the numeric columns are drawn from 0..ValueMod-1
ValueMod == 3
\* the numeric cells drawn are the multiples of ValueStep below ValueMod * ValueStep
ValueStep == 20

\* a reading of a row: a number c, a missing value (pd.isna), or no such key
Val(c) == [tag |-> "value", c |-> c]
NaN == [tag |-> "nan", c |-> 0]
Absent == [tag |-> "absent", c |-> 0]

(***************************************************************************)
(* Exact rationals in mixed form.                                          *)
(***************************************************************************)
RECURSIVE GCD(_, _)
GCD(a, b) == IF b = 0 THEN a ELSE GCD(b, a % b)

\* num / den for num >= 0, den > 0
Rat(num, den) ==
    LET r == num % den
        g == GCD(den, r)
    IN  [w |-> num \div den, n |-> r \div g, d |-> den \div g]

Whole(k) == [w |-> k, n |-> 0, d |-> 1]

RatLeq(x, y) ==
    \/ x.w < y.w
    \/ x.w = y.w /\ x.n * y.d <= y.n * x.d

RatLess(x, y) == RatLeq(x, y) /\ x # y

RatMax2(x, y) == IF RatLeq(x, y) THEN y ELSE x

RECURSIVE RatMax(_)
RatMax(s) ==
    IF Len(s) = 1 THEN s[1] ELSE RatMax2(s[1], RatMax(Tail(s)))

\* |x - y| <= 1
RatWithinOne(x, y) ==
    LET lo == IF RatLeq(x, y) THEN x ELSE y
        hi == IF RatLeq(x, y) THEN y ELSE x
    IN  RatLeq(hi, [w |-> lo.w + 1, n |-> lo.n, d |-> lo.d])

(***************************************************************************)
(* DataCollector._calculate_aqi (data_collector.py 151-182).               *)
(***************************************************************************)
Pollutants == <<"pm25", "pm10", "no2">>
PollutantSet == {"pm25", "pm10", "no2"}

\* (bp_lo, bp_hi, aqi_lo, aqi_hi); bp_lo and bp_hi in tenths of a ug/m3
breakpoints ==
    [pm25 |-> << <<0, 120, 0, 50>>, <<121, 354, 51, 100>>,
                 <<355, 554, 101, 150>>, <<555, 1504, 151, 200>>,
                 <<1505, 2504, 201, 300>>, <<2505, 5004, 301, 500>> >>,
     pm10 |-> << <<0, 540, 0, 50>>, <<550, 1540, 51, 100>>,
                 <<1550, 2540, 101, 150>>, <<2550, 3540, 151, 200>>,
                 <<3550, 4240, 201, 300>>, <<4250, 6040, 301, 500>> >>,
     no2  |-> << <<0, 530, 0, 50>>, <<540, 1000, 51, 100>>,
                 <<1010, 3600, 101, 150>>, <<3610, 6490, 151, 200>>,
                 <<6500, 12490, 201, 300>>, <<12500, 20490, 301, 500>> >>]

BpLo(b) == b[1] * UnitsPerTenth
BpHi(b) == b[2] * UnitsPerTenth

\* line 170: the linear interpolation inside bracket b
Interpolate(b, c) ==
    Rat(b[3] * (BpHi(b) - BpLo(b)) + (b[4] - b[3]) * (c - BpLo(b)),
        BpHi(b) - BpLo(b))

InBracket(b, c) == BpLo(b) <= c /\ c <= BpHi(b)

\* the first bracket of the pollutant that holds c, 0 when none does
MatchingBracket(pollutant, c) ==
    LET bps == breakpoints[pollutant]
        hits == {i \in 1..Len(bps) : InBracket(bps[i], c)}
    IN  IF hits = {} THEN 0
        ELSE CHOOSE i \in hits : \A j \in hits : i <= j

\* the mutant of get_aqi_value: a reading that matches no bracket yields 0
get_aqi_value_nofall(concentration, pollutant) ==
    IF pollutant \notin PollutantSet \/ concentration.tag # "value" THEN Whole(0)
    ELSE LET i == MatchingBracket(pollutant, concentration.c)
         IN  IF i = 0 THEN Whole(0)
             ELSE Interpolate(breakpoints[pollutant][i], concentration.c)

\* lines 154-172
get_aqi_value(concentration, pollutant) ==
    IF pollutant \notin PollutantSet \/ concentration.tag # "value" THEN Whole(0)
    ELSE LET i == MatchingBracket(pollutant, concentration.c)
         IN  IF i = 0 THEN Whole(500)
             ELSE Interpolate(breakpoints[pollutant][i], concentration.c)

\* line 177: pollutant in row and not pd.isna(row[pollutant])
Available(r, pollutant) ==
    r[pollutant].tag # "absent" /\ r[pollutant].tag # "nan"

\* the mutant of AqiValues: a sub-index of 0 is appended like any other
AqiValuesKeepZero(r) ==
    LET val(k) == get_aqi_value(r[Pollutants[k]], Pollutants[k])
        keep(k) == Available(r, Pollutants[k])
        F[k \in 0..Len(Pollutants)] ==
            IF k = 0 THEN <<>>
            ELSE IF keep(k) THEN Append(F[k - 1], val(k)) ELSE F[k - 1]
    IN  F[Len(Pollutants)]

\* lines 175-180: the sub-indices appended to aqi_values, in loop order
AqiValues(r) ==
    LET val(k) == get_aqi_value(r[Pollutants[k]], Pollutants[k])
        keep(k) == Available(r, Pollutants[k]) /\ RatLess(Whole(0), val(k))
        F[k \in 0..Len(Pollutants)] ==
            IF k = 0 THEN <<>>
            ELSE IF keep(k) THEN Append(F[k - 1], val(k)) ELSE F[k - 1]
    IN  F[Len(Pollutants)]

\* the mutant of calculate_aqi: an empty aqi_values yields 0
calculate_aqi_zero(r) ==
    IF AqiValues(r) # <<>> THEN RatMax(AqiValues(r)) ELSE Whole(0)

\* lines 151-182
calculate_aqi(r) ==
    IF AqiValues(r) # <<>> THEN RatMax(AqiValues(r)) ELSE Whole(100)

(***************************************************************************)
(* DataCollector.get_current_aqi and get_historical_data                   *)
(* (data_collector.py 21-149, 184-295).  A measurement row has the cells   *)
(* pm25, pm10 and no2 (concentrations in grid units) and the field aqi.    *)
(***************************************************************************)
\* a concentration of x ug/m3 in grid units
Micro(x) == x * 10 * UnitsPerTenth

\* lines 85-90, 248-253: pivot_table over the measurements of some
\* timestamps: a parameter that no measurement has gets no column, one that
\* some timestamp lacks is NaN there
Pivot(rows) ==
    [k \in 1..Len(rows) |->
        [p \in PollutantSet |->
            IF rows[k][p].tag = "absent"
               /\ \E j \in 1..Len(rows) : rows[j][p].tag # "absent"
            THEN NaN ELSE rows[k][p]]]

\* lines 93, 255: df_pivot["aqi"] = df_pivot.apply(self._calculate_aqi, axis=1)
WithAqi(rows) ==
    [k \in 1..Len(rows) |->
        [pm25 |-> rows[k].pm25, pm10 |-> rows[k].pm10, no2 |-> rows[k].no2,
         aqi |-> calculate_aqi(rows[k])]]

\* lines 105-109: a pollutant column that is missing is added as NaN
MapColumns(rows) ==
    [k \in 1..Len(rows) |->
        [c \in DOMAIN rows[k] |->
            IF c \in PollutantSet /\ rows[k][c].tag = "absent" THEN NaN
            ELSE rows[k][c]]]

\* lines 60-111
process_openaq_response(results) == MapColumns(WithAqi(Pivot(results)))

\* lines 227-257
process_historical_response(results) == WithAqi(Pivot(results))

\* lines 119-130: (low, high) of the ranges the fallback draws from
DefaultLevels ==
    [pm25 |-> <<60, 140>>, pm10 |-> <<90, 180>>, no2 |-> <<30, 60>>,
     aqi |-> <<120, 220>>]

city_pollution_levels ==
    [Delhi |-> [pm25 |-> <<80, 200>>, pm10 |-> <<120, 300>>,
                no2 |-> <<40, 80>>, aqi |-> <<150, 300>>],
     Mumbai |-> [pm25 |-> <<60, 150>>, pm10 |-> <<90, 200>>,
                 no2 |-> <<35, 70>>, aqi |-> <<120, 250>>],
     Kolkata |-> [pm25 |-> <<70, 180>>, pm10 |-> <<100, 250>>,
                  no2 |-> <<30, 65>>, aqi |-> <<140, 280>>],
     Chennai |-> [pm25 |-> <<50, 120>>, pm10 |-> <<80, 160>>,
                  no2 |-> <<25, 55>>, aqi |-> <<100, 200>>],
     Bangalore |-> [pm25 |-> <<45, 110>>, pm10 |-> <<70, 150>>,
                    no2 |-> <<20, 50>>, aqi |-> <<90, 180>>],
     Hyderabad |-> [pm25 |-> <<55, 130>>, pm10 |-> <<85, 180>>,
                    no2 |-> <<28, 60>>, aqi |-> <<110, 220>>]]

PollutionRange(city_name) ==
    IF city_name \in DOMAIN city_pollution_levels
    THEN city_pollution_levels[city_name] ELSE DefaultLevels

\* lines 133-149: the one row of the fallback; draw[c] is 1 or 2, the end of
\* the range that np.random.uniform falls on for column c
fetch_cpcb_data(city_name, draw) ==
    LET range == PollutionRange(city_name)
    IN  <<[pm25 |-> Val(Micro(range.pm25[draw.pm25])),
           pm10 |-> Val(Micro(range.pm10[draw.pm10])),
           no2 |-> Val(Micro(range.no2[draw.no2])),
           aqi |-> Whole(range.aqi[draw.aqi])]>>

\* lines 264-271: the base values of the cities and of any other city
DefaultBase == [pm25 |-> 85, pm10 |-> 130, no2 |-> 40, aqi |-> 150]

base_values ==
    [Delhi |-> [pm25 |-> 120, pm10 |-> 180, no2 |-> 50, aqi |-> 200],
     Mumbai |-> [pm25 |-> 90, pm10 |-> 140, no2 |-> 45, aqi |-> 160],
     Kolkata |-> [pm25 |-> 110, pm10 |-> 170, no2 |-> 40, aqi |-> 180],
     Chennai |-> [pm25 |-> 70, pm10 |-> 110, no2 |-> 35, aqi |-> 130],
     Bangalore |-> [pm25 |-> 65, pm10 |-> 100, no2 |-> 30, aqi |-> 120],
     Hyderabad |-> [pm25 |-> 80, pm10 |-> 130, no2 |-> 38, aqi |-> 150]]

BaseValues(city_name) ==
    IF city_name \in DOMAIN base_values THEN base_values[city_name]
    ELSE DefaultBase

\* lines 276-280: the multiplier of a row is a number of quarters
Quarters == 4

\* lines 286-288: max(base * multiplier, floor), in grid units
Scaled(base, quarters, floor) ==
    LET value == (Micro(base) * quarters) \div Quarters
    IN  IF value >= Micro(floor) THEN value ELSE Micro(floor)

\* lines 282-293: the row of one timestamp
GeneratedRow(base, quarters) ==
    [pm25 |-> Val(Scaled(base.pm25, quarters, 5)),
     pm10 |-> Val(Scaled(base.pm10, quarters, 10)),
     no2 |-> Val(Scaled(base.no2, quarters, 5)),
     aqi |-> RatMax2(Rat(base.aqi * quarters, Quarters), Whole(10))]

\* lines 259-295: one row for each timestamp of the range, multipliers[k]
\* being hour_factor * seasonal_factor * noise of the k-th
generate_historical_data(city_name, multipliers) ==
    [k \in 1..Len(multipliers) |->
        GeneratedRow(BaseValues(city_name), multipliers[k])]

\* lines 21-34: the rows of the OpenAQ answer when there are any (an error
\* or an empty answer is results = <<>>), else the fallback
get_current_aqi(city_name, results, draw) ==
    IF results # <<>> THEN process_openaq_response(results)
    ELSE fetch_cpcb_data(city_name, draw)

\* lines 184-201
get_historical_data(city_name, results, multipliers) ==
    IF results # <<>> THEN process_historical_response(results)
    ELSE generate_historical_data(city_name, multipliers)

(***************************************************************************)
(* Tables (pandas DataFrames): an ordered list of column names and a       *)
(* sequence of rows, each row a function from column name to cell.  A cell *)
(* is Val(c) or NaN (None, NaN and NaT alike: whatever isna() holds of).   *)
(* Timestamps are whole hours since the start of a non-leap year.          *)
(***************************************************************************)
EmptyFrame == [columns |-> <<>>, rows |-> <<>>]

\* DataFrame.empty: no rows or no columns
IsEmpty(t) == Len(t.rows) = 0 \/ Len(t.columns) = 0

Range(s) == {s[i] : i \in 1..Len(s)}

IsNa(cell) == cell.tag # "value"

\* the same sequence, with every element computed once
Materialize(s) == SelectSeq(s, LAMBDA x : TRUE)

\* the same function, tabulated once
Tabulate(f) == f @@ <<>>

(***************************************************************************)
(* AirQualityPredictor.prepare_features (ml_models.py 21-63).              *)
(***************************************************************************)
\* line 31: sort_values('timestamp'); rows of equal timestamp keep their
\* order (the tables drawn here have no two rows of equal timestamp)
SortValues(rows) ==
    LET n == Len(rows)
        before(j, i) ==
            \/ rows[j]["timestamp"].c < rows[i]["timestamp"].c
            \/ rows[j]["timestamp"].c = rows[i]["timestamp"].c /\ j < i
        rank == [i \in 1..n |-> Cardinality({j \in 1..n : before(j, i)}) + 1]
    IN  Materialize([k \in 1..n |-> rows[CHOOSE i \in 1..n : rank[i] = k]])

\* line 42 (and 49): the columns that get lag and rolling features
LagCols == <<"pm25", "pm10", "no2", "aqi">>
\* the mutant of lag_periods: the 24-hour lag is left out
lag_periods_short == <<1, 3, 6, 12>>

\* line 40
lag_periods == <<1, 3, 6, 12, 24>>
\* line 47
window_sizes == <<6, 12, 24>>

\* lines 34-37
TimeFeatures ==
    << [name |-> "hour", kind |-> "hour", col |-> "timestamp", k |-> 0],
       [name |-> "day_of_week", kind |-> "day_of_week", col |-> "timestamp", k |-> 0],
       [name |-> "month", kind |-> "month", col |-> "timestamp", k |-> 0],
       [name |-> "day_of_year", kind |-> "day_of_year", col |-> "timestamp", k |-> 0] >>

\* lines 56-58
WeatherFeatures ==
    << [name |-> "temp_estimate", kind |-> "estimate", col |-> "hour", k |-> 0],
       [name |-> "humidity_estimate", kind |-> "estimate", col |-> "hour", k |-> 0],
       [name |-> "wind_speed_estimate", kind |-> "estimate", col |-> "hour", k |-> 0] >>

\* lines 41-44: one lag column per period (outer loop) and per lagged
\* column (inner loop) that the table has
LagFeatures(cols) ==
    LET nc == Len(LagCols)
        all == [m \in 1..(Len(lag_periods) * nc) |->
                  LET period == lag_periods[((m - 1) \div nc) + 1]
                      col == LagCols[((m - 1) % nc) + 1]
                  IN  [name |-> col \o "_lag_" \o ToString(period),
                       kind |-> "lag", col |-> col, k |-> period]]
    IN  SelectSeq(all, LAMBDA f : f.col \in Range(cols))

\* lines 48-52: a rolling mean and a rolling std per window (outer loop) and
\* per lagged column (inner loop) that the table has
RollingFeatures(cols) ==
    LET nc == Len(LagCols)
        all == [m \in 1..(Len(window_sizes) * nc * 2) |->
                  LET window == window_sizes[((m - 1) \div (nc * 2)) + 1]
                      col == LagCols[(((m - 1) \div 2) % nc) + 1]
                  IN  IF (m - 1) % 2 = 0
                      THEN [name |-> col \o "_rolling_mean_" \o ToString(window),
                            kind |-> "mean", col |-> col, k |-> window]
                      ELSE [name |-> col \o "_rolling_std_" \o ToString(window),
                            kind |-> "std", col |-> col, k |-> window]]
    IN  SelectSeq(all, LAMBDA f : f.col \in Range(cols))

\* every column prepare_features assigns, in the order of the assignments
Features(cols) ==
    TimeFeatures \o LagFeatures(cols) \o RollingFeatures(cols) \o WeatherFeatures

\* data[name] = ...: an existing column keeps its place, a new one is appended
AssignColumns(cols, feats) ==
    LET new == SelectSeq(feats, LAMBDA f : f.name \notin Range(cols))
    IN  cols \o [k \in 1..Len(new) |-> new[k].name]

\* the columns of the table prepare_features returns for a table of columns cols
PreparedColumns(cols) == AssignColumns(cols, Features(cols))

\* line 44: data[col].shift(period) at sorted position i
Shifted(sorted, col, period, i) ==
    IF i - period >= 1 THEN sorted[i - period][col] ELSE NaN

\* the mutant of WindowStart: the window ends one row after row i
WindowStartAhead(n, window, i) ==
    IF i + 1 >= window /\ i + 1 <= n THEN i - window + 2 ELSE 0

\* lines 51-52: rolling(window) at sorted position i of n: the first row of
\* the window, which ends with row i; 0 before there are `window` rows
WindowStart(n, window, i) ==
    IF i >= window THEN i - window + 1 ELSE 0

RECURSIVE WeightedSum(_, _, _, _, _)
WeightedSum(sorted, col, lo, hi, values) ==
    IF values = {} THEN 0
    ELSE LET v == CHOOSE v \in values : TRUE
         IN  v * Cardinality({j \in lo..hi : sorted[j][col].c = v})
                + WeightedSum(sorted, col, lo, hi, values \ {v})

\* the sum of column col over the rows lo..hi: every value that occurs,
\* times the number of rows that hold it
SumOver(sorted, col, lo, hi) ==
    WeightedSum(sorted, col, lo, hi, {sorted[j][col].c : j \in lo..hi})

RECURSIVE WeightedSquares(_, _, _, _, _)
WeightedSquares(sorted, col, lo, hi, values) ==
    IF values = {} THEN 0
    ELSE LET v == CHOOSE v \in values : TRUE
         IN  v * v * Cardinality({j \in lo..hi : sorted[j][col].c = v})
                + WeightedSquares(sorted, col, lo, hi, values \ {v})

\* the sum of the squares of column col over the rows lo..hi
SumSquares(sorted, col, lo, hi) ==
    WeightedSquares(sorted, col, lo, hi, {sorted[j][col].c : j \in lo..hi})

\* .mean() of a rolling window, as window * mean (the sum); NaN unless the
\* window is full and holds no missing value
RollingMean(sorted, col, window, i) ==
    LET lo == WindowStart(Len(sorted), window, i)
        hi == lo + window - 1
    IN  IF lo = 0 \/ \E j \in lo..hi : IsNa(sorted[j][col]) THEN NaN
        ELSE Val(SumOver(sorted, col, lo, hi))

\* .std() of a rolling window, as window * (window - 1) * std^2
RollingStd(sorted, col, window, i) ==
    LET lo == WindowStart(Len(sorted), window, i)
        hi == lo + window - 1
        sum == SumOver(sorted, col, lo, hi)
    IN  IF lo = 0 \/ \E j \in lo..hi : IsNa(sorted[j][col]) THEN NaN
        ELSE Val(window * SumSquares(sorted, col, lo, hi) - sum * sum)

HoursPerDay == 24
DaysPerWeek == 7
DaysPerYear == 365

\* days before the first of each month of a non-leap year
MonthStarts == <<0, 31, 59, 90, 120, 151, 181, 212, 243, 273, 304, 334>>

DayOfYear(ts) == ((ts \div HoursPerDay) % DaysPerYear) + 1

MonthOf(ts) ==
    CHOOSE m \in 1..12 :
        /\ MonthStarts[m] < DayOfYear(ts)
        /\ \A k \in 1..12 : MonthStarts[k] < DayOfYear(ts) => k <= m

\* the cell a feature gets in the row at sorted position i.  The weather
\* estimates are real numbers that are defined for every row: the cell
\* says only that it is not missing.
FeatureValue(f, sorted, i) ==
    LET ts == sorted[i]["timestamp"]
    IN  CASE f.kind = "lag" -> Shifted(sorted, f.col, f.k, i)
          [] f.kind = "mean" -> RollingMean(sorted, f.col, f.k, i)
          [] f.kind = "std" -> RollingStd(sorted, f.col, f.k, i)
          [] f.kind = "hour" ->
                IF IsNa(ts) THEN NaN ELSE Val(ts.c % HoursPerDay)
          [] f.kind = "day_of_week" ->
                IF IsNa(ts) THEN NaN
                ELSE Val((ts.c \div HoursPerDay) % DaysPerWeek)
          [] f.kind = "month" -> IF IsNa(ts) THEN NaN ELSE Val(MonthOf(ts.c))
          [] f.kind = "day_of_year" ->
                IF IsNa(ts) THEN NaN ELSE Val(DayOfYear(ts.c))
          [] OTHER -> IF IsNa(ts) THEN NaN ELSE Val(0)

\* for every column that prepare_features assigns, the feature that is
\* assigned to it last
AssignedTo(feats) ==
    Tabulate([c \in {feats[k].name : k \in 1..Len(feats)} |->
                CHOOSE k \in 1..Len(feats) :
                    /\ feats[k].name = c
                    /\ \A j \in 1..Len(feats) : feats[j].name = c => j <= k])

\* the row of the feature table at sorted position i, before dropna: the
\* assigned columns, and the columns of the input that are not overwritten
FeatureRow(feats, assigned, sorted, i) ==
    [c \in DOMAIN assigned |-> FeatureValue(feats[assigned[c]], sorted, i)]
        @@ sorted[i]

\* the mutant of DropNa: no row is dropped
DropNaNone(rows) == rows

\* line 61: dropna() keeps the rows without any missing cell
DropNa(rows) ==
    SelectSeq(rows, LAMBDA r : \A c \in DOMAIN r : ~IsNa(r[c]))

\* lines 21-63.  err is "none" or the exception raised.
prepare_features(t) ==
    IF IsEmpty(t) THEN [err |-> "none", columns |-> <<>>, rows |-> <<>>]
    ELSE IF "timestamp" \notin Range(t.columns)
    THEN [err |-> "KeyError", columns |-> <<>>, rows |-> <<>>]
    ELSE LET sorted == SortValues(t.rows)
             feats == Materialize(Features(t.columns))
             assigned == AssignedTo(feats)
             all == [i \in 1..Len(sorted) |->
                        FeatureRow(feats, assigned, sorted, i)]
         IN  [err |-> "none", columns |-> PreparedColumns(t.columns),
              rows |-> DropNa(all)]

(***************************************************************************)
(* AirQualityPredictor: the random-forest path (ml_models.py 13-19,        *)
(* 65-124, 173-221).  An instance is the record                            *)
(* [rf_model, scaler, feature_columns, is_trained]; None is a record with  *)
(* isNone = TRUE.                                                          *)
(***************************************************************************)
\* no table prepared yet; also the pd.DataFrame() an empty input gets
NoPrepared == [err |-> "none", columns |-> <<>>, rows |-> <<>>]

NoneColumns == [isNone |-> TRUE, cols |-> <<>>]
Columns(cols) == [isNone |-> FALSE, cols |-> cols]

\* a forest: None, or a RandomForestRegressor; a fitted one remembers the
\* number of features and the least and greatest target it was fitted on
NoneModel ==
    [isNone |-> TRUE, fitted |-> FALSE, n_features_in |-> 0,
     y_min |-> 0, y_max |-> 0]

\* StandardScaler(): a fitted one remembers the names of the features and
\* (standing for mean_ and scale_) the rows it was fitted on, by timestamp
NewScaler == [fitted |-> FALSE, feature_names_in |-> <<>>, fit_rows |-> <<>>]

\* lines 14-19
NewPredictor ==
    [rf_model |-> NoneModel, scaler |-> NewScaler,
     feature_columns |-> NoneColumns, is_trained |-> FALSE]

\* line 78
exclude_cols ==
    <<"timestamp", "location", "city", "country", "latitude", "longitude">>

\* the mutant of FeatureColumnsOf: the target column is kept as a feature
FeatureColumnsWithTarget(columns, target_column) ==
    SelectSeq(columns, LAMBDA col : col \notin Range(exclude_cols))

\* lines 79-80
FeatureColumnsOf(columns, target_column) ==
    SelectSeq(columns,
              LAMBDA col : col \notin Range(exclude_cols) /\ col # target_column)

\* line 91: test_size=0.2 is one row in TestOneIn
TestOneIn == 5

\* the mutant of train_test_split: the held-out rows are the first ones
train_test_split_head(rows) ==
    LET n == Len(rows)
        n_test == (n + TestOneIn - 1) \div TestOneIn
    IN  [n_train |-> n - n_test,
         train |-> SubSeq(rows, n_test + 1, n),
         test |-> SubSeq(rows, 1, n_test)]

\* lines 90-92: train_test_split(test_size=0.2, shuffle=False):
\* n_test = ceil(0.2 * n), the first n - n_test rows train, the rest test
train_test_split(rows) ==
    LET n == Len(rows)
        n_test == (n + TestOneIn - 1) \div TestOneIn
    IN  [n_train |-> n - n_test,
         train |-> SubSeq(rows, 1, n - n_test),
         test |-> SubSeq(rows, n - n_test + 1, n)]

TimestampsOf(rows) == [k \in 1..Len(rows) |-> rows[k]["timestamp"].c]

MinOf(S) == CHOOSE x \in S : \A y \in S : x <= y
MaxOf(S) == CHOOSE x \in S : \A y \in S : y <= x

\* line 95: scaler.fit_transform(X_train)
ScalerFit(names, rows) ==
    [fitted |-> TRUE, feature_names_in |-> names,
     fit_rows |-> TimestampsOf(rows)]

\* lines 99-108: RandomForestRegressor(...).fit(X_train_scaled, y_train)
ForestFit(names, rows, target_column) ==
    LET y == {rows[k][target_column].c : k \in 1..Len(rows)}
    IN  [isNone |-> FALSE, fitted |-> TRUE, n_features_in |-> Len(names),
         y_min |-> MinOf(y), y_max |-> MaxOf(y)]

\* lines 99-106: RandomForestRegressor(...) before fit
NewForest ==
    [isNone |-> FALSE, fitted |-> FALSE, n_features_in |-> 0,
     y_min |-> 0, y_max |-> 0]

\* the columns that hold text: a forest cannot be fitted to such a target
TextColumns == {"location", "city", "country"}

Raised(self, error, processed) ==
    [self |-> self, err |-> error, processed |-> processed,
     train |-> <<>>, test |-> <<>>]

\* lines 68-72: processed_data, when the call gets as far as preparing it
TrainProcessed(t) == IF IsEmpty(t) THEN NoPrepared ELSE prepare_features(t)

\* lines 65-124, with processed_data of line 72 passed in.  The result is
\* the instance after the call, the error raised ("none" when metrics are
\* returned), processed_data, and the rows of X_train and of X_test by
\* timestamp.
train_random_forest(self, t, target_column, processed) ==
    IF IsEmpty(t) THEN Raised(self, "NoData", NoPrepared)
    ELSE
    LET assigned == [self EXCEPT !.feature_columns =
                        Columns(FeatureColumnsOf(processed.columns, target_column))]
        names == assigned.feature_columns.cols
        split == train_test_split(processed.rows)
    IN  IF processed.err # "none" THEN Raised(self, processed.err, processed)
        ELSE IF IsEmpty(processed) THEN Raised(self, "NoFeatures", processed)
        ELSE IF names = <<>> THEN Raised(assigned, "NoFeatureColumns", processed)
        ELSE IF target_column \notin Range(processed.columns)
        THEN Raised(assigned, "KeyError", processed)
        ELSE IF split.n_train = 0
        THEN Raised(assigned, "EmptyTrainSet", processed)
        ELSE IF target_column \in TextColumns
        THEN Raised([assigned EXCEPT
                        !.scaler = ScalerFit(names, split.train),
                        !.rf_model = NewForest],
                    "FitError", processed)
        ELSE [self |-> [assigned EXCEPT
                          !.scaler = ScalerFit(names, split.train),
                          !.rf_model = ForestFit(names, split.train, target_column),
                          !.is_trained = TRUE],
              err |-> "none",
              processed |-> processed,
              train |-> TimestampsOf(split.train),
              test |-> TimestampsOf(split.test)]

\* line 192: scaler.transform(latest_data).  A table whose columns are as
\* many as, but not named as, the ones the scaler was fitted on is refused by
\* scikit-learn from 1.2 on and only warned about before: strict_names says
\* which.
ScalerTransform(s, names, strict_names) ==
    IF ~s.fitted THEN "NotFitted"
    ELSE IF Len(names) # Len(s.feature_names_in) THEN "FeatureMismatch"
    ELSE IF names # s.feature_names_in /\ strict_names THEN "FeatureMismatch"
    ELSE "none"

\* line 195: rf_model.predict(latest_scaled)
ForestPredict(m, names) ==
    IF ~m.fitted THEN "NotFitted"
    ELSE IF Len(names) # m.n_features_in THEN "FeatureMismatch"
    ELSE "none"

\* lines 176-183: processed_data, when the call gets as far as preparing it
PredictProcessed(self, t) ==
    IF ~self.is_trained \/ self.rf_model.isNone THEN NoPrepared
    ELSE IF IsEmpty(t) THEN NoPrepared
    ELSE prepare_features(t)

\* lines 176-189: the error raised up to the selection of the latest row
PredictInputError(self, t, processed) ==
    IF ~self.is_trained \/ self.rf_model.isNone THEN "NotTrained"
    ELSE IF IsEmpty(t) THEN "NoData"
    ELSE IF processed.err # "none" THEN processed.err
    ELSE IF IsEmpty(processed) THEN "NoFeatures"
    ELSE IF self.feature_columns.isNone THEN "KeyError"
    ELSE IF \E c \in Range(self.feature_columns.cols) :
               c \notin Range(processed.columns)
    THEN "KeyError"
    ELSE "none"

\* lines 191-195: the error raised by the scaler or the forest, if any
PredictModel(self, strict_names) ==
    LET names == self.feature_columns.cols
        scaled == ScalerTransform(self.scaler, names, strict_names)
    IN  IF scaled # "none" THEN scaled
        ELSE ForestPredict(self.rf_model, names)

IntervalHalfWidth == 25

Max2(a, b) == IF a >= b THEN a ELSE b

\* lines 214-218
Forecast(prediction) ==
    [predicted_aqi |-> Max2(0, prediction),
     prediction_interval |->
        <<Max2(0, prediction - IntervalHalfWidth), prediction + IntervalHalfWidth>>]

NoForecast == [predicted_aqi |-> 0, prediction_interval |-> <<0, 0>>]

(***************************************************************************)
(* AirQualityPredictor: the ARIMA path (ml_models.py 126-171, 223-263).    *)
(***************************************************************************)
\* line 16: self.arima_model = None; otherwise ARIMA(ts_data, order=(2, 1, 2))
\* on a series of nobs hourly values
NoneArima == [isNone |-> TRUE, nobs |-> 0]

\* __init__ sets no attribute arima_fitted: has says whether the instance
\* has it (line 226 asks hasattr); line 167 stores a fitted model
NoFitted == [has |-> FALSE, nobs |-> 0]

NewArima == [arima_model |-> NoneArima, arima_fitted |-> NoFitted]

\* line 141
MinHours == 48

\* lines 138-139: resample('H').mean().fillna(method='ffill') has one value
\* for every hour from the first timestamp to the last
ResampleLen(t) ==
    LET ts == {t.rows[k]["timestamp"].c : k \in 1..Len(t.rows)}
    IN  MaxOf(ts) - MinOf(ts) + 1

\* lines 126-171.  fit_ok says whether ARIMA.fit (line 147) returns; the
\* result is the instance after the call, the error raised ("none" when
\* metrics are returned) and whether fit was called.
train_arima(self, t, target_column, fit_ok) ==
    IF IsEmpty(t) THEN [self |-> self, err |-> "NoData", fit |-> FALSE]
    ELSE IF "timestamp" \notin Range(t.columns)
            \/ target_column \notin Range(t.columns)
    THEN [self |-> self, err |-> "KeyError", fit |-> FALSE]
    ELSE IF ResampleLen(t) < MinHours
    THEN [self |-> self, err |-> "InsufficientData", fit |-> FALSE]
    ELSE
    LET built == [self EXCEPT !.arima_model =
                     [isNone |-> FALSE, nobs |-> ResampleLen(t)]]
    IN  IF ~fit_ok THEN [self |-> built, err |-> "FitError", fit |-> TRUE]
        ELSE [self |-> [built EXCEPT !.arima_fitted =
                           [has |-> TRUE, nobs |-> ResampleLen(t)]],
              err |-> "none", fit |-> TRUE]

\* the mutant of predict_next_day_arima: the model that was built is asked
\* for, whether or not it was fitted
predict_next_day_arima_built(self) ==
    IF self.arima_model.isNone THEN "NotTrained" ELSE "none"

\* lines 223-263: the error raised, "none" when forecasts are returned
predict_next_day_arima(self) ==
    IF ~self.arima_fitted.has THEN "NotTrained" ELSE "none"

\* lines 290-303 and 305-326: the files under the prefix; a file that was
\* never written is absent
NoFiles ==
    [has_rf |-> FALSE, rf |-> NoneModel, scaler |-> NewScaler,
     has_arima |-> FALSE, arima |-> NoFitted]

\* lines 290-303: the files after save_models
save_models(self, arima, stored) ==
    LET forest == IF self.rf_model.isNone THEN stored
                  ELSE [stored EXCEPT !.has_rf = TRUE, !.rf = self.rf_model,
                                      !.scaler = self.scaler]
    IN  IF arima.arima_fitted.has
        THEN [forest EXCEPT !.has_arima = TRUE, !.arima = arima.arima_fitted]
        ELSE forest

\* lines 309-314: the instance after the first try of load_models
load_models(self, stored) ==
    IF stored.has_rf
    THEN [self EXCEPT !.rf_model = stored.rf, !.scaler = stored.scaler,
                      !.is_trained = TRUE]
    ELSE self

\* lines 317-321: arima_fitted after the second try of load_models
load_arima(arima, stored) ==
    IF stored.has_arima THEN [arima EXCEPT !.arima_fitted = stored.arima]
    ELSE arima

\* line 248-249: the band around a prediction when there is no conf_int
FallbackHalfWidth == 20

\* lines 245-250: the entry of hour i.  result is what arima_fitted.forecast
\* returned: the predictions, and the rows <<lower, upper>> of conf_int()
\* when the result has a predicted_mean
HourlyPrediction(result, i) ==
    LET pred == result.predictions[i]
    IN  [hour |-> i,
         predicted_aqi |-> Max2(0, pred),
         lower_bound |-> IF result.has_conf_int
                         THEN Max2(0, result.conf_int[i][1])
                         ELSE Max2(0, pred - FallbackHalfWidth),
         upper_bound |-> IF result.has_conf_int THEN result.conf_int[i][2]
                         ELSE pred + FallbackHalfWidth]

\* lines 243-250
HourlyPredictions(result) ==
    [i \in 1..Len(result.predictions) |-> HourlyPrediction(result, i)]

\* no call made yet.  fit and arima_before are kept for train_arima: whether
\* ARIMA.fit was called, and arima_fitted as it was when the call was made;
\* raw and hourly for predict_next_day_arima: what the fitted model
\* forecast, and the hourly_predictions returned
NoCall ==
    [op |-> "none", target |-> "", err |-> "none", train |-> <<>>,
     test |-> <<>>, forecast |-> NoForecast, fit |-> FALSE,
     arima_before |-> NoFitted, raw |-> <<>>, hourly |-> <<>>]

(***************************************************************************)
(* HealthRiskAnalyzer (health_risk_analysis.py).  Risks are exact          *)
(* fractions [n, d] in lowest terms; the tables are kept in the units      *)
(* named below.                                                            *)
(***************************************************************************)
Frac(n, d) == LET g == GCD(n, d) IN [n |-> n \div g, d |-> d \div g]

\* x * p / q, cancelling before multiplying
FracTimes(x, p, q) ==
    LET g1 == GCD(x.n, q)
        g2 == GCD(p, x.d)
    IN  Frac((x.n \div g1) * (p \div g2), (x.d \div g2) * (q \div g1))

\* -1, 0 or 1 as a / b is less than, equal to or greater than c / d: the
\* whole parts are compared, then the reciprocals of the remainders
RECURSIVE FracCompare(_, _, _, _)
FracCompare(a, b, c, d) ==
    IF a \div b # c \div d THEN (IF a \div b < c \div d THEN -1 ELSE 1)
    ELSE IF a % b = 0 /\ c % d = 0 THEN 0
    ELSE IF a % b = 0 THEN -1
    ELSE IF c % d = 0 THEN 1
    ELSE FracCompare(d, c % d, b, a % b)

FracLeq(x, y) == FracCompare(x.n, x.d, y.n, y.d) <= 0

FracMin(x, y) == IF FracLeq(x, y) THEN x ELSE y

FracOne == [n |-> 1, d |-> 1]

\* risks of the two step tables are hundredths, vulnerability factors are
\* tenths, percentages are tenths of a percent
Hundredths == 100
Tenths == 10
PerMille == 1000

\* lines 16-23, in tenths, in the order of the dict
Groups ==
    <<"children_under_5", "elderly_over_65", "respiratory_conditions",
      "cardiovascular_conditions", "pregnant_women", "outdoor_workers">>

vulnerability_factors ==
    [children_under_5 |-> 18, elderly_over_65 |-> 16,
     respiratory_conditions |-> 22, cardiovascular_conditions |-> 19,
     pregnant_women |-> 14, outdoor_workers |-> 15]

\* lines 26-87, percentages in tenths of a percent
city_demographics ==
    [Delhi |->
        [children_under_5 |-> 82, elderly_over_65 |-> 46,
         respiratory_conditions |-> 125, cardiovascular_conditions |-> 89,
         pregnant_women |-> 21, outdoor_workers |-> 285,
         population |-> 32900000, low_income_percentage |-> 352],
     Mumbai |->
        [children_under_5 |-> 78, elderly_over_65 |-> 52,
         respiratory_conditions |-> 108, cardiovascular_conditions |-> 76,
         pregnant_women |-> 19, outdoor_workers |-> 312,
         population |-> 20700000, low_income_percentage |-> 413],
     Kolkata |->
        [children_under_5 |-> 89, elderly_over_65 |-> 61,
         respiratory_conditions |-> 142, cardiovascular_conditions |-> 98,
         pregnant_women |-> 20, outdoor_workers |-> 257,
         population |-> 15000000, low_income_percentage |-> 328],
     Chennai |->
        [children_under_5 |-> 75, elderly_over_65 |-> 58,
         respiratory_conditions |-> 98, cardiovascular_conditions |-> 72,
         pregnant_women |-> 18, outdoor_workers |-> 234,
         population |-> 11700000, low_income_percentage |-> 296],
     Bangalore |->
        [children_under_5 |-> 72, elderly_over_65 |-> 49,
         respiratory_conditions |-> 89, cardiovascular_conditions |-> 68,
         pregnant_women |-> 19, outdoor_workers |-> 221,
         population |-> 13200000, low_income_percentage |-> 264],
     Hyderabad |->
        [children_under_5 |-> 78, elderly_over_65 |-> 51,
         respiratory_conditions |-> 102, cardiovascular_conditions |-> 75,
         pregnant_women |-> 20, outdoor_workers |-> 248,
         population |-> 10500000, low_income_percentage |-> 312]]

\* the mutant of CityOrDefault: an unknown city falls back to Mumbai
CityOrMumbai(city_name) ==
    IF city_name \notin DOMAIN city_demographics THEN "Mumbai" ELSE city_name

\* lines 91-92, 135-136, 191-192
CityOrDefault(city_name) ==
    IF city_name \notin DOMAIN city_demographics THEN "Delhi" ELSE city_name

\* lines 171-184, in hundredths
get_base_risk_from_aqi(aqi_value) ==
    IF aqi_value <= 50 THEN 5
    ELSE IF aqi_value <= 100 THEN 15
    ELSE IF aqi_value <= 150 THEN 35
    ELSE IF aqi_value <= 200 THEN 60
    ELSE IF aqi_value <= 300 THEN 85
    ELSE 100

\* the mutant of ScoreBaseRisk: the gating table is used for the score
ScoreBaseRiskGating(aqi_value) == get_base_risk_from_aqi(aqi_value)

\* the mutant of ScoreBaseRisk: the risks of the two lowest bands are
\* exchanged
ScoreBaseRiskSwapped(aqi_value) ==
    IF aqi_value <= 50 THEN 30
    ELSE IF aqi_value <= 100 THEN 10
    ELSE IF aqi_value <= 150 THEN 60
    ELSE IF aqi_value <= 200 THEN 80
    ELSE IF aqi_value <= 300 THEN 95
    ELSE 100

\* lines 97-108, in hundredths
ScoreBaseRisk(aqi_value) ==
    IF aqi_value <= 50 THEN 10
    ELSE IF aqi_value <= 100 THEN 30
    ELSE IF aqi_value <= 150 THEN 60
    ELSE IF aqi_value <= 200 THEN 80
    ELSE IF aqi_value <= 300 THEN 95
    ELSE 100

\* lines 111-119: total_risk (in Hundredths * Tenths * PerMille) and
\* total_population_factor (in PerMille) after the first k groups
RECURSIVE RiskTotals(_, _, _)
RiskTotals(demographics, base_risk, k) ==
    IF k = 0 THEN [total_risk |-> 0, total_population_factor |-> 0]
    ELSE
    LET before == RiskTotals(demographics, base_risk, k - 1)
        group == Groups[k]
    IN  [total_risk |-> before.total_risk
                        + base_risk * vulnerability_factors[group]
                            * demographics[group],
         total_population_factor |-> before.total_population_factor
                                      + demographics[group]]

\* the mutant of WeightedRisk: the plain mean of the groups' risks
WeightedRiskMean(totals, base_risk) ==
    LET v == vulnerability_factors
        sum == v.children_under_5 + v.elderly_over_65
               + v.respiratory_conditions + v.cardiovascular_conditions
               + v.pregnant_women + v.outdoor_workers
    IN  Frac(base_risk * sum, Hundredths * Tenths * Len(Groups))

\* lines 122-125
WeightedRisk(totals, base_risk) ==
    IF totals.total_population_factor > 0
    THEN Frac(totals.total_risk,
              Hundredths * Tenths * totals.total_population_factor)
    ELSE Frac(base_risk, Hundredths)

\* line 128: 0.3, in tenths
LowIncomeWeight == 3

\* lines 89-131: base_risk (in hundredths) and final_risk
calculate_health_risk_score(aqi_value, city_name) ==
    LET demographics == city_demographics[CityOrDefault(city_name)]
        base_risk == ScoreBaseRisk(aqi_value)
        totals == RiskTotals(demographics, base_risk, Len(Groups))
        weighted_risk == WeightedRisk(totals, base_risk)
        final_risk ==
            FracMin(FracTimes(weighted_risk,
                              Tenths * PerMille
                                + LowIncomeWeight * demographics.low_income_percentage,
                              Tenths * PerMille),
                    FracOne)
    IN  [base_risk |-> base_risk, final_risk |-> final_risk]

\* int() of a float product whose exact value is num / den: the floor, or,
\* when the exact value is whole, possibly one less (the float product may
\* fall just below it: int(32900000 * (8.2 / 100)) is 2697799)
FloatInt(num, den, round_down) ==
    IF num % den = 0 /\ num > 0 /\ round_down THEN num \div den - 1
    ELSE num \div den

\* every population of city_demographics is a whole multiple of PopUnit
PopUnit == 100000

\* the mutant of RiskThreshold: the threshold of the middle band for every AQI
RiskThresholdFlat(aqi_value) == 30

\* lines 144-149, in hundredths
RiskThreshold(aqi_value) ==
    IF aqi_value <= 100 THEN 10
    ELSE IF aqi_value <= 150 THEN 30
    ELSE 60

\* lines 153-167: the entry of one group; risk_level is in
\* Hundredths * Tenths.  round_total and round_count say which way the two
\* int() calls fall.
GroupAtRisk(demographics, group, aqi_value, round_total, round_count) ==
    LET base_risk == get_base_risk_from_aqi(aqi_value)
        group_risk == base_risk * vulnerability_factors[group]
        people == (demographics.population \div PopUnit) * demographics[group]
    IN  [group |-> group,
         total_population |->
            FloatInt(people * (PopUnit \div PerMille), 1, round_total),
         at_risk_count |-> FloatInt(people * group_risk, Tenths, round_count),
         risk_level |-> group_risk,
         percentage |-> demographics[group]]

\* lines 133-169: the entries of at_risk_populations in the order they are
\* inserted
get_vulnerable_populations_at_risk(aqi_value, city_name, round_total, round_count) ==
    LET demographics == city_demographics[CityOrDefault(city_name)]
        included == SelectSeq(Groups, LAMBDA group :
                       get_base_risk_from_aqi(aqi_value)
                           * vulnerability_factors[group]
                         >= RiskThreshold(aqi_value) * Tenths)
    IN  [k \in 1..Len(included) |->
            GroupAtRisk(demographics, included[k], aqi_value, round_total,
                        round_count)]

\* line 197: the sum and the number of the pm25 cells that are not missing;
\* 0 when the table has no such column.  Concentrations are in tenths.
RECURSIVE Pm25Sum(_, _)
Pm25Sum(rows, k) ==
    IF k = 0 THEN [sum |-> 0, count |-> 0]
    ELSE LET before == Pm25Sum(rows, k - 1)
         IN  IF IsNa(rows[k]["pm25"]) THEN before
             ELSE [sum |-> before.sum + rows[k]["pm25"].c,
                   count |-> before.count + 1]

AveragePm25(t) ==
    IF "pm25" \in Range(t.columns) THEN Pm25Sum(t.rows, Len(t.rows))
    ELSE [sum |-> 0, count |-> 1]

\* line 205: the WHO guideline of 10, in tenths
Pm25Guideline == 100

\* lines 204-205: 0.008 in thousandths and 0.06 in hundredths
baseline_mortality_rate == 8
MortalitySlope == 6

\* lines 210-211: 0.15 and 0.12 in hundredths
respiratory_baseline == 15
RespiratorySlope == 12

\* lines 216-217; amounts of money are counted in CostUnit rupees
cost_per_death == 3500000
cost_per_illness == 25000
CostUnit == 25000

\* the mutant of ExcessCount: the risk factor is not held at 0 from below
ExcessCountUnclamped(population, avg, rate, scale, round_down) ==
    LET excess == avg.sum - Pm25Guideline * avg.count
    IN  IF avg.count = 0 THEN 0
        ELSE FloatInt((population \div PopUnit) * rate * excess,
                      (scale * Hundredths * avg.count) \div PopUnit,
                      round_down)

\* lines 205-213: int(population * baseline * max(0, (avg - 10) / 10 * slope))
\* where baseline * slope is rate / scale; the mean of no values is NaN, and
\* max(0, NaN) is 0
ExcessCount(population, avg, rate, scale, round_down) ==
    LET excess == avg.sum - Pm25Guideline * avg.count
    IN  IF avg.count = 0 \/ excess <= 0 THEN 0
        ELSE FloatInt((population \div PopUnit) * rate * excess,
                      (scale * Hundredths * avg.count) \div PopUnit,
                      round_down)

EmptyMetrics ==
    [empty |-> TRUE, city |-> "", population |-> 0,
     average_pm25 |-> [sum |-> 0, count |-> 0],
     excess_deaths_annual |-> 0, excess_respiratory_cases |-> 0,
     economic_impact |-> 0, total_days |-> 0]

\* lines 186-241
calculate_health_impact_metrics(t, city_name, round_down) ==
    IF IsEmpty(t) THEN EmptyMetrics
    ELSE
    LET city == CityOrDefault(city_name)
        demographics == city_demographics[city]
        avg_pm25 == AveragePm25(t)
        excess_deaths_annual ==
            ExcessCount(demographics.population, avg_pm25,
                        baseline_mortality_rate * MortalitySlope,
                        PerMille * Hundredths, round_down)
        excess_respiratory_cases ==
            ExcessCount(demographics.population, avg_pm25,
                        respiratory_baseline * RespiratorySlope,
                        Hundredths * Hundredths, round_down)
    IN  [empty |-> FALSE,
         city |-> city,
         population |-> demographics.population,
         average_pm25 |-> avg_pm25,
         excess_deaths_annual |-> excess_deaths_annual,
         excess_respiratory_cases |-> excess_respiratory_cases,
         economic_impact |->
            excess_deaths_annual * (cost_per_death \div CostUnit)
              + excess_respiratory_cases * (cost_per_illness \div CostUnit),
         total_days |-> Len(t.rows)]

\* lines 409-432: the texts appended for the AQI, named by their band and
\* position
AqiRecommendations(aqi_value) ==
    IF aqi_value <= 50 THEN <<"good-1">>
    ELSE IF aqi_value <= 100 THEN <<"moderate-1", "moderate-2">>
    ELSE IF aqi_value <= 150
    THEN <<"sensitive-1", "sensitive-2", "sensitive-3">>
    ELSE IF aqi_value <= 200
    THEN <<"unhealthy-1", "unhealthy-2", "unhealthy-3", "unhealthy-4">>
    ELSE <<"hazardous-1", "hazardous-2", "hazardous-3", "hazardous-4",
           "hazardous-5">>

\* lines 435-442
CityRecommendations(city_name) ==
    IF city_name \notin DOMAIN city_demographics THEN <<>>
    ELSE
    LET demographics == city_demographics[city_name]
    IN  (IF demographics.outdoor_workers > 250
         THEN <<"outdoor-workers:" \o city_name>> ELSE <<>>)
        \o (IF demographics.low_income_percentage > 350
            THEN <<"low-income:" \o city_name>> ELSE <<>>)

\* lines 405-444
generate_health_recommendations(aqi_value, city_name) ==
    AqiRecommendations(aqi_value) \o CityRecommendations(city_name)

(***************************************************************************)
(* The readings drawn.                                                     *)
(***************************************************************************)
BracketEnds(pollutant) ==
    {BpLo(breakpoints[pollutant][i]) : i \in 1..6}
        \cup {BpHi(breakpoints[pollutant][i]) : i \in 1..6}

BracketMids(pollutant) ==
    {(BpLo(breakpoints[pollutant][i]) + BpHi(breakpoints[pollutant][i])) \div 2 :
        i \in 1..6}

\* every reading within NearSteps grid units of a bracket end (so: the
\* readings of every gap, just below zero and just above the last bracket)
\* and the middle of every bracket
Readings(pollutant) ==
    {e + k : e \in BracketEnds(pollutant), k \in (0 - NearSteps)..NearSteps}
        \cup BracketMids(pollutant)

\* the exact bracket ends, the gap readings, one reading above and one
\* below zero
RowReadings(pollutant) ==
    BracketEnds(pollutant) \cup {e + 1 : e \in BracketEnds(pollutant)}
        \cup {0 - 1}

UpperBound(pollutant) == BpHi(breakpoints[pollutant][6])

RowValues(pollutant) ==
    {Val(c) : c \in RowReadings(pollutant)} \cup {Absent, NaN}

Rows == [pm25 : RowValues("pm25"), pm10 : RowValues("pm10"),
         no2 : RowValues("no2")]

NoRow == [pm25 |-> Absent, pm10 |-> Absent, no2 |-> Absent]
NoSubIn == [pollutant |-> "pm25", c1 |-> 0, c2 |-> 0]
NoSubOut == <<Whole(0), Whole(0)>>

SubInputs ==
    UNION {[pollutant : {p}, c1 : Readings(p), c2 : Readings(p)] :
            p \in PollutantSet}

(***************************************************************************)
(* The tables drawn: single hourly series of one city.                     *)
(***************************************************************************)
\* _generate_historical_data: the columns of the synthetic table
SyntheticCols ==
    <<"timestamp", "city", "location", "pm25", "pm10", "no2", "so2", "o3",
      "co", "aqi">>

\* _process_historical_response: the pivot's index, the parameters that were
\* measured (here no2 and pm25) in sorted order, then aqi
HistoricalCols == <<"timestamp", "location", "city", "no2", "pm25", "aqi">>

Schemas == <<SyntheticCols, HistoricalCols>>

IdCols == {"timestamp", "city", "location", "country", "latitude", "longitude"}

IndexOf(cols, c) == CHOOSE k \in 1..Len(cols) : cols[k] = c

\* the cell of column c in the row of sorted position i
DrawnCell(cols, c, i, seed) ==
    IF c = "timestamp" THEN Val(seed * HoursPerDay + i)
    ELSE IF c \in IdCols THEN Val(1)
    ELSE Val(((seed + i * IndexOf(cols, c)) % ValueMod) * ValueStep)

\* a hole is a missing cell: <<position, column>>, position 0 for none
Holes(n) ==
    {<<0, "aqi">>} \cup
    {<<q, c>> : q \in {1, n} \cap (1..n), c \in {"aqi", "so2"}}

\* the rows in sorted order; from sorted position `tail` on, the numeric
\* cells are other values
DrawnRows(cols, n, seed, hole, tail) ==
    [i \in 1..n |->
        [c \in Range(cols) |->
            IF hole[1] = i /\ hole[2] = c THEN NaN
            ELSE IF i >= tail /\ c \notin IdCols
            THEN Val((DrawnCell(cols, c, i, seed).c + ValueStep)
                        % (ValueMod * ValueStep))
            ELSE DrawnCell(cols, c, i, seed)]]

Reverse(rows) == [i \in 1..Len(rows) |-> rows[Len(rows) + 1 - i]]

Orders == {"ascending", "descending"}

DrawnTable(cols, n, seed, hole, tail, order) ==
    LET rows == DrawnRows(cols, n, seed, hole, tail)
    IN  [columns |-> cols,
         rows |-> IF order = "ascending" THEN rows ELSE Reverse(rows)]

\* the sorted positions from which a second table may differ: none (n + 1),
\* or a position after the warm-up
Tails(n) == {n + 1} \cup {q \in 1..n : q > 24}

\* tables that hold the rows of two cities: the cities alternate from hour
\* to hour, or the series of the second follows that of the first
Layouts == {"alternating", "blocks"}

CityAt(layout, n, i) ==
    IF layout = "alternating" THEN 1 + (i % 2)
    ELSE IF 2 * i <= n THEN 1 ELSE 2

CityTable(cols, n, seed, layout, order) ==
    LET drawn == DrawnRows(cols, n, seed, <<0, "aqi">>, n + 1)
        rows == [i \in 1..n |->
                    [drawn[i] EXCEPT !["city"] = Val(CityAt(layout, n, i))]]
    IN  [columns |-> cols,
         rows |-> IF order = "ascending" THEN rows ELSE Reverse(rows)]

(***************************************************************************)
(* The arguments drawn for the HealthRiskAnalyzer methods.                 *)
(***************************************************************************)
BandEdges == {50, 100, 150, 200, 300}

\* the greatest AQI drawn
MaxAqi == 400

\* every band edge, the value after it, and the ends
AqiInputs == {0, MaxAqi} \cup BandEdges \cup {e + 1 : e \in BandEdges}

\* the six cities of the table and one that is not in it
CityNames == DOMAIN city_demographics \cup {"Pune"}

Pm25Table(cells) ==
    [columns |-> <<"pm25">>,
     rows |-> [k \in 1..Len(cells) |-> [c \in {"pm25"} |-> cells[k]]]]

\* tables of pm25 readings (in tenths) around the guideline of 10, with a
\* missing reading, with none but missing readings, without the column, and
\* the empty frame
Pm25Tables ==
    {Pm25Table(<<Val(c)>>) : c \in {0, 99, 100, 101, 102, 250}}
    \cup {Pm25Table(<<Val(100), Val(103)>>), Pm25Table(<<NaN, Val(101)>>),
          Pm25Table(<<NaN>>),
          [columns |-> <<"aqi">>, rows |-> <<[aqi |-> Val(120)]>>],
          EmptyFrame}

NoHealthIn ==
    [kind |-> "none", aqi1 |-> 0, aqi2 |-> 0, city |-> "",
     data1 |-> EmptyFrame, data2 |-> EmptyFrame]

NoHealthOut == [op |-> "none", first |-> 0, second |-> 0]

\* two AQI values and a city, or two tables and a city
HealthInputs ==
    {[NoHealthIn EXCEPT !.kind = "aqi", !.aqi1 = a, !.aqi2 = b, !.city = c] :
        a \in AqiInputs, b \in AqiInputs, c \in CityNames}
    \cup {[NoHealthIn EXCEPT !.kind = "data", !.data1 = t, !.data2 = u,
                              !.city = c] :
           t \in Pm25Tables, u \in Pm25Tables, c \in CityNames}

(***************************************************************************)
(* DatabaseHelper.save_air_quality_measurement (db_helper.py 18-68).  The  *)
(* table air_quality_measurements is a function from the identity key      *)
(* <<city, timestamp, location>> to the other columns of the row.          *)
(***************************************************************************)
\* lines 34-42: the columns that ON CONFLICT ... DO UPDATE SET assigns
UpdatedColumns ==
    {"aqi", "pm25", "pm10", "no2", "so2", "o3", "co", "data_source"}

\* lines 32: the columns of an inserted row that are not of the key
StoredColumns == {"latitude", "longitude"} \cup UpdatedColumns

\* line 34: the conflict target
KeyOf(r) == <<r["city"], r["timestamp"], r["location"]>>

\* lines 44-56: the parameters of the statement; a missing value is stored
\* as NULL, which NaN stands for
Parameters(r, data_source) ==
    [c \in StoredColumns |->
        IF c = "data_source" THEN data_source
        ELSE IF c \notin DOMAIN r \/ IsNa(r[c]) THEN NaN ELSE r[c]]

\* lines 30-57: INSERT ... ON CONFLICT (city, timestamp, location) DO UPDATE
Execute(table, r, data_source) ==
    LET new == Parameters(r, data_source)
        key == KeyOf(r)
    IN  IF key \in DOMAIN table
        THEN [table EXCEPT ![key] =
                [c \in StoredColumns |->
                    IF c \in UpdatedColumns THEN new[c] ELSE table[key][c]]]
        ELSE table @@ (key :> new)

\* lines 29-58: the table as the transaction sees it after the first n rows
RECURSIVE Executed(_, _, _, _)
Executed(table, rows, data_source, n) ==
    IF n = 0 THEN table
    ELSE Execute(Executed(table, rows, data_source, n - 1), rows[n],
                 data_source)

\* the outcome of a call that has not been made
NoOutcome ==
    [status |-> "none", count |-> 0, connected |-> FALSE,
     cursor_closed |-> FALSE, connection_closed |-> FALSE,
     committed |-> FALSE, rolled_back |-> FALSE]

\* lines 18-68: the committed table after the call, and its outcome.
\* failure.at is "none", "connect" (psycopg2.connect raises), "row" (the
\* statement of row failure.row raises) or "commit"
save_air_quality_measurement(table, data, data_source, failure) ==
    IF IsEmpty(data)
    THEN [table |-> table,
          outcome |-> [NoOutcome EXCEPT !.status = "returned"]]
    ELSE IF failure.at = "connect"
    THEN [table |-> table, outcome |-> [NoOutcome EXCEPT !.status = "raised"]]
    ELSE IF failure.at \in {"row", "commit"}
    THEN [table |-> table,
          outcome |-> [NoOutcome EXCEPT
                          !.status = "raised", !.connected = TRUE,
                          !.rolled_back = TRUE,
                          !.cursor_closed = TRUE, !.connection_closed = TRUE]]
    ELSE [table |-> Executed(table, data.rows, data_source, Len(data.rows)),
          outcome |-> [NoOutcome EXCEPT
                          !.status = "returned", !.count = Len(data.rows),
                          !.connected = TRUE, !.committed = TRUE,
                          !.cursor_closed = TRUE, !.connection_closed = TRUE]]

\* the table before anything is stored, and the call not yet made
NoTable == <<>>
NoFailure == [at |-> "none", row |-> 0]
NoSave ==
    [calls |-> 0, data |-> EmptyFrame, data_source |-> "",
     before |-> NoTable, failure |-> NoFailure, outcome |-> NoOutcome]

(***************************************************************************)
(* The AQI machine: a row is drawn and _calculate_aqi is applied to it.    *)
(***************************************************************************)
AqiIdle ==
    /\ row = NoRow
    /\ aqi = Whole(0)
    /\ subIn = NoSubIn
    /\ subOut = NoSubOut

HealthIdle ==
    /\ hin = NoHealthIn
    /\ hout = NoHealthOut

NoRequest == [city |-> "", results |-> <<>>]
NoResponse == [op |-> "none", path |-> "none", rows |-> <<>>]

CollectorIdle ==
    /\ request = NoRequest
    /\ response = NoResponse

ModelIdle ==
    /\ rf_model = NewPredictor.rf_model
    /\ scaler = NewPredictor.scaler
    /\ feature_columns = NewPredictor.feature_columns
    /\ is_trained = NewPredictor.is_trained
    /\ last_trained = NoneColumns
    /\ arima_model = NewArima.arima_model
    /\ arima_fitted = NewArima.arima_fitted
    /\ succeeded = {}
    /\ call = NoCall
    /\ files = NoFiles

DbIdle ==
    /\ measurements = NoTable
    /\ save = NoSave

FeatIdle ==
    /\ df = EmptyFrame
    /\ df2 = EmptyFrame
    /\ prepared = NoPrepared
    /\ prepared2 = NoPrepared

InitAqi ==
    /\ pc = "row"
    /\ row \in Rows
    /\ aqi = Whole(0)
    /\ subIn = NoSubIn
    /\ subOut = NoSubOut
    /\ FeatIdle
    /\ ModelIdle
    /\ HealthIdle
    /\ CollectorIdle
    /\ DbIdle

CalculateAqi ==
    /\ pc = "row"
    /\ pc' = "aqi"
    /\ aqi' = calculate_aqi(row)
    /\ UNCHANGED <<row, subIn, subOut, featVars, modelVars, healthVars, collectorVars, dbVars>>

NextAqi == CalculateAqi

SpecAqi == InitAqi /\ [][NextAqi]_vars

(***************************************************************************)
(* The sub-index machine: two readings of one pollutant are drawn and      *)
(* get_aqi_value is applied to both.                                       *)
(***************************************************************************)
InitSub ==
    /\ pc = "readings"
    /\ subIn \in SubInputs
    /\ subOut = NoSubOut
    /\ row = NoRow
    /\ aqi = Whole(0)
    /\ FeatIdle
    /\ ModelIdle
    /\ HealthIdle
    /\ CollectorIdle
    /\ DbIdle

GetAqiValue ==
    /\ pc = "readings"
    /\ pc' = "subindex"
    /\ subOut' = <<get_aqi_value(Val(subIn.c1), subIn.pollutant),
                   get_aqi_value(Val(subIn.c2), subIn.pollutant)>>
    /\ UNCHANGED <<row, aqi, subIn, featVars, modelVars, healthVars, collectorVars, dbVars>>

NextSub == GetAqiValue

SpecSub == InitSub /\ [][NextSub]_vars

(***************************************************************************)
(* The feature machine: a table df and a table df2 that agrees with df     *)
(* below some sorted position are drawn, and prepare_features is applied   *)
(* to both.                                                                *)
(***************************************************************************)
InitFeatures ==
    /\ pc = "table"
    /\ \E k \in 1..Len(Schemas), n \in 0..MaxRows, seed \in 0..1,
          order \in Orders :
        \E hole \in Holes(n), tail \in Tails(n) :
            /\ df = DrawnTable(Schemas[k], n, seed, hole, n + 1, order)
            /\ df2 = DrawnTable(Schemas[k], n, seed, hole, tail, order)
    /\ prepared = NoPrepared
    /\ prepared2 = NoPrepared
    /\ AqiIdle
    /\ ModelIdle
    /\ HealthIdle
    /\ CollectorIdle
    /\ DbIdle

PrepareFeatures ==
    /\ pc = "table"
    /\ pc' = "features"
    /\ prepared' = prepare_features(df)
    /\ prepared2' = prepare_features(df2)
    /\ UNCHANGED <<df, df2, aqiVars, modelVars, healthVars, collectorVars, dbVars>>

NextFeatures == PrepareFeatures

SpecFeatures == InitFeatures /\ [][NextFeatures]_vars

(***************************************************************************)
(* The same machine on tables that hold the rows of two cities.            *)
(***************************************************************************)
InitCities ==
    /\ pc = "table"
    /\ \E k \in 1..Len(Schemas), n \in 2..MaxRows, seed \in 0..1,
          layout \in Layouts, order \in Orders :
            df = CityTable(Schemas[k], n, seed, layout, order)
    /\ df2 = EmptyFrame
    /\ prepared = NoPrepared
    /\ prepared2 = NoPrepared
    /\ AqiIdle
    /\ ModelIdle
    /\ HealthIdle
    /\ CollectorIdle
    /\ DbIdle

SpecCities == InitCities /\ [][NextFeatures]_vars

(***************************************************************************)
(* The predictor machine: one AirQualityPredictor, on which                *)
(* train_random_forest and predict_next_day_rf are called in any order     *)
(* with tables of either schema.  A call is two steps: the caller passes   *)
(* its arguments, then the method runs to its return or its raise.         *)
(***************************************************************************)
\* the tables passed: full-length ones of both schemas, one in each order,
\* one that leaves a single row and one that leaves none after the warm-up,
\* and the empty frame
ModelTables ==
    <<DrawnTable(SyntheticCols, MaxRows, 0, <<0, "aqi">>, MaxRows + 1, "descending"),
      DrawnTable(HistoricalCols, MaxRows, 1, <<0, "aqi">>, MaxRows + 1, "ascending"),
      DrawnTable(SyntheticCols, MaxRows - 2, 1, <<0, "aqi">>, MaxRows - 1, "descending"),
      DrawnTable(SyntheticCols, MaxRows - 3, 0, <<0, "aqi">>, MaxRows - 2, "ascending"),
      EmptyFrame>>

Targets == {"aqi", "pm10"}

\* the targets passed to train_random_forest: those, and a column of text
TrainTargets == Targets \cup {"location"}

\* the longest hourly series passed to train_arima
MaxHours == 48

\* a table of the columns timestamp and aqi with one row at each of hours
SeriesAt(hours) ==
    [columns |-> <<"timestamp", "aqi">>,
     rows |-> [k \in 1..Len(hours) |->
                 [c \in {"timestamp", "aqi"} |->
                     IF c = "timestamp" THEN Val(hours[k])
                     ELSE Val((hours[k] % ValueMod) * ValueStep)]]]

HoursUpTo(n) == [k \in 1..n |-> k]

\* the tables passed to train_arima: the ones above, unbroken hourly series
\* of MaxHours and of MaxHours - 1 rows, and two rows that lie MaxHours - 1
\* and MaxHours - 2 hours apart
ArimaTables ==
    ModelTables \o
    <<SeriesAt(HoursUpTo(MaxHours)), SeriesAt(HoursUpTo(MaxHours - 1)),
      SeriesAt(<<1, MaxHours>>), SeriesAt(<<1, MaxHours - 1>>)>>

SelfArima == [arima_model |-> arima_model, arima_fitted |-> arima_fitted]

Self ==
    [rf_model |-> rf_model, scaler |-> scaler,
     feature_columns |-> feature_columns, is_trained |-> is_trained]

InitModel ==
    /\ pc = "ready"
    /\ rf_model = NewPredictor.rf_model
    /\ scaler = NewPredictor.scaler
    /\ feature_columns = NewPredictor.feature_columns
    /\ is_trained = NewPredictor.is_trained
    /\ last_trained = NoneColumns
    /\ arima_model = NewArima.arima_model
    /\ arima_fitted = NewArima.arima_fitted
    /\ succeeded = {}
    /\ call = NoCall
    /\ files = NoFiles
    /\ FeatIdle
    /\ AqiIdle
    /\ HealthIdle
    /\ CollectorIdle
    /\ DbIdle

CallTrain ==
    /\ pc = "ready"
    /\ pc' = "train_called"
    /\ \E k \in 1..Len(ModelTables), target_column \in TrainTargets :
        /\ df' = ModelTables[k]
        /\ call' = [NoCall EXCEPT !.op = "train", !.target = target_column]
    /\ prepared' = NoPrepared
    /\ UNCHANGED <<df2, prepared2, aqiVars, selfVars, arimaVars, succeeded, files, healthVars, collectorVars, dbVars>>

TrainRandomForest ==
    /\ pc = "train_called"
    /\ pc' = "ready"
    /\ prepared' = TrainProcessed(df)
    /\ LET r == train_random_forest(Self, df, call.target, prepared')
       IN  /\ rf_model' = r.self.rf_model
           /\ scaler' = r.self.scaler
           /\ feature_columns' = r.self.feature_columns
           /\ is_trained' = r.self.is_trained
           /\ last_trained' = IF r.err = "none" THEN r.self.feature_columns
                              ELSE last_trained
           /\ succeeded' = IF r.err = "none" THEN succeeded \cup {"train"}
                           ELSE succeeded
           /\ call' = [call EXCEPT !.err = r.err, !.train = r.train,
                                   !.test = r.test]
    /\ UNCHANGED <<df, df2, prepared2, aqiVars, arimaVars, files, healthVars, collectorVars, dbVars>>

\* the values drawn for what the forest predicts: the mean of leaves lies
\* between the least and the greatest target it was fitted on; the ends are
\* drawn, and the values on either side of the interval's half width
Predictions(m) ==
    {m.y_min, m.y_max}
        \cup ({IntervalHalfWidth - 1, IntervalHalfWidth} \cap (m.y_min..m.y_max))

CallPredict ==
    /\ pc = "ready"
    /\ pc' = "predict_called"
    /\ \E k \in 1..Len(ModelTables) : df' = ModelTables[k]
    /\ call' = [NoCall EXCEPT !.op = "predict"]
    /\ prepared' = NoPrepared
    /\ UNCHANGED <<df2, prepared2, aqiVars, selfVars, arimaVars, succeeded, files, healthVars, collectorVars, dbVars>>

PredictNextDayRf ==
    /\ pc = "predict_called"
    /\ pc' = "ready"
    /\ prepared' = PredictProcessed(Self, df)
    /\ \E strict_names \in BOOLEAN, prediction \in Predictions(rf_model) :
         LET input == PredictInputError(Self, df, prepared')
             error == IF input # "none" THEN input
                      ELSE PredictModel(Self, strict_names)
         IN  call' = [call EXCEPT
                        !.err = error,
                        !.forecast = IF error = "none"
                                     THEN Forecast(prediction)
                                     ELSE NoForecast]
    /\ UNCHANGED <<df, df2, prepared2, aqiVars, selfVars, arimaVars, succeeded, files, healthVars, collectorVars, dbVars>>

CallTrainArima ==
    /\ pc = "ready"
    /\ pc' = "train_arima_called"
    /\ \E k \in 1..Len(ArimaTables), target_column \in Targets :
        /\ df' = ArimaTables[k]
        /\ call' = [NoCall EXCEPT !.op = "train_arima",
                                  !.target = target_column,
                                  !.arima_before = arima_fitted]
    /\ prepared' = NoPrepared
    /\ UNCHANGED <<df2, prepared2, aqiVars, selfVars, arimaVars, succeeded, files, healthVars, collectorVars, dbVars>>

TrainArima ==
    /\ pc = "train_arima_called"
    /\ pc' = "ready"
    /\ \E fit_ok \in BOOLEAN :
         LET r == train_arima(SelfArima, df, call.target, fit_ok)
         IN  /\ arima_model' = r.self.arima_model
             /\ arima_fitted' = r.self.arima_fitted
             /\ succeeded' = IF r.err = "none"
                             THEN succeeded \cup {"train_arima"}
                             ELSE succeeded
             /\ call' = [call EXCEPT !.err = r.err, !.fit = r.fit]
    /\ UNCHANGED <<df, df2, prepared, prepared2, aqiVars, selfVars, files, healthVars, collectorVars, dbVars>>

\* what arima_fitted.forecast(steps) may return for steps = 2: predictions
\* well above 0, near 0 and below 0, as plain values or with the rows of a
\* confidence interval of half width ConfHalfWidth around them
ConfHalfWidth == 10

RawPredictions == {<<30, 25>>, <<5, 0>>, <<0, -10>>, <<-15, -30>>}

ForecastResults ==
    {[predictions |-> r, has_conf_int |-> FALSE, conf_int |-> <<>>] :
        r \in RawPredictions}
    \cup {[predictions |-> r, has_conf_int |-> TRUE,
           conf_int |-> [i \in 1..Len(r) |->
                           <<r[i] - ConfHalfWidth, r[i] + ConfHalfWidth>>]] :
           r \in RawPredictions}

PredictNextDayArima ==
    /\ pc = "ready"
    /\ pc' = "ready"
    /\ LET error == predict_next_day_arima(SelfArima)
       IN  \/ /\ error # "none"
              /\ call' = [NoCall EXCEPT !.op = "predict_arima", !.err = error]
           \/ /\ error = "none"
              /\ \E result \in ForecastResults :
                    call' = [NoCall EXCEPT !.op = "predict_arima",
                                           !.raw = result.predictions,
                                           !.hourly = HourlyPredictions(result)]
    /\ df' = EmptyFrame
    /\ prepared' = NoPrepared
    /\ UNCHANGED <<df2, prepared2, aqiVars, selfVars, arimaVars, succeeded, files, healthVars, collectorVars, dbVars>>

NextModel ==
    \/ CallTrain
    \/ TrainRandomForest
    \/ CallPredict
    \/ PredictNextDayRf
    \/ CallTrainArima
    \/ TrainArima
    \/ PredictNextDayArima

SpecModel == InitModel /\ [][NextModel]_vars

(***************************************************************************)
(* The same machine with save_models and load_models, and with the         *)
(* construction of a new AirQualityPredictor, which finds the files the    *)
(* earlier one has saved.                                                  *)
(***************************************************************************)
SaveModels ==
    /\ pc = "ready"
    /\ pc' = "ready"
    /\ files' = save_models(Self, SelfArima, files)
    /\ call' = [NoCall EXCEPT !.op = "save"]
    /\ df' = EmptyFrame
    /\ prepared' = NoPrepared
    /\ UNCHANGED <<df2, prepared2, aqiVars, selfVars, arimaVars, succeeded, healthVars, collectorVars, dbVars>>

LoadModels ==
    /\ pc = "ready"
    /\ pc' = "ready"
    /\ LET loaded == load_models(Self, files)
       IN  /\ rf_model' = loaded.rf_model
           /\ scaler' = loaded.scaler
           /\ is_trained' = loaded.is_trained
    /\ arima_fitted' = load_arima(SelfArima, files).arima_fitted
    /\ call' = [NoCall EXCEPT !.op = "load"]
    /\ df' = EmptyFrame
    /\ prepared' = NoPrepared
    /\ UNCHANGED <<df2, prepared2, aqiVars, feature_columns, last_trained, arima_model, succeeded, files, healthVars, collectorVars, dbVars>>

\* lines 14-19: AirQualityPredictor()
NewInstance ==
    /\ pc = "ready"
    /\ pc' = "ready"
    /\ rf_model' = NewPredictor.rf_model
    /\ scaler' = NewPredictor.scaler
    /\ feature_columns' = NewPredictor.feature_columns
    /\ is_trained' = NewPredictor.is_trained
    /\ last_trained' = NoneColumns
    /\ arima_model' = NewArima.arima_model
    /\ arima_fitted' = NewArima.arima_fitted
    /\ succeeded' = {}
    /\ call' = [NoCall EXCEPT !.op = "init"]
    /\ df' = EmptyFrame
    /\ prepared' = NoPrepared
    /\ UNCHANGED <<df2, prepared2, aqiVars, files, healthVars, collectorVars, dbVars>>

NextStore ==
    \/ CallTrain
    \/ TrainRandomForest
    \/ CallPredict
    \/ PredictNextDayRf
    \/ SaveModels
    \/ LoadModels
    \/ NewInstance

SpecStore == InitModel /\ [][NextStore]_vars

(***************************************************************************)
(* The health machine: arguments are drawn and one HealthRiskAnalyzer      *)
(* method is applied to them, once for each of the two AQI values or       *)
(* tables.                                                                 *)
(***************************************************************************)
InitHealth ==
    /\ pc = "health"
    /\ hin \in HealthInputs
    /\ hout = NoHealthOut
    /\ CollectorIdle
    /\ AqiIdle
    /\ FeatIdle
    /\ ModelIdle
    /\ DbIdle

Returned(op, first, second) == [op |-> op, first |-> first, second |-> second]

CalculateHealthRiskScore ==
    /\ pc = "health"
    /\ hin.kind = "aqi"
    /\ pc' = "returned"
    /\ hout' = Returned("calculate_health_risk_score",
                        calculate_health_risk_score(hin.aqi1, hin.city),
                        calculate_health_risk_score(hin.aqi2, hin.city))
    /\ UNCHANGED <<hin, aqiVars, featVars, modelVars, collectorVars, dbVars>>

GetVulnerablePopulationsAtRisk ==
    /\ pc = "health"
    /\ hin.kind = "aqi"
    /\ pc' = "returned"
    /\ \E round_total \in BOOLEAN, round_count \in BOOLEAN :
         hout' = Returned("get_vulnerable_populations_at_risk",
                    get_vulnerable_populations_at_risk(hin.aqi1, hin.city,
                                                       round_total, round_count),
                    get_vulnerable_populations_at_risk(hin.aqi2, hin.city,
                                                       round_total, round_count))
    /\ UNCHANGED <<hin, aqiVars, featVars, modelVars, collectorVars, dbVars>>

CalculateHealthImpactMetrics ==
    /\ pc = "health"
    /\ hin.kind = "data"
    /\ pc' = "returned"
    /\ \E round_down \in BOOLEAN :
         hout' = Returned("calculate_health_impact_metrics",
                    calculate_health_impact_metrics(hin.data1, hin.city, round_down),
                    calculate_health_impact_metrics(hin.data2, hin.city, round_down))
    /\ UNCHANGED <<hin, aqiVars, featVars, modelVars, collectorVars, dbVars>>

GenerateHealthRecommendations ==
    /\ pc = "health"
    /\ hin.kind = "aqi"
    /\ pc' = "returned"
    /\ hout' = Returned("generate_health_recommendations",
                        generate_health_recommendations(hin.aqi1, hin.city),
                        generate_health_recommendations(hin.aqi2, hin.city))
    /\ UNCHANGED <<hin, aqiVars, featVars, modelVars, collectorVars, dbVars>>

NextHealth ==
    \/ CalculateHealthRiskScore
    \/ GetVulnerablePopulationsAtRisk
    \/ CalculateHealthImpactMetrics
    \/ GenerateHealthRecommendations

SpecHealth == InitHealth /\ [][NextHealth]_vars

(***************************************************************************)
(* The collector machine: a city and the answer of the OpenAQ API are      *)
(* drawn and get_current_aqi or get_historical_data is applied to them.    *)
(***************************************************************************)
\* the measurements of one timestamp that the API may return
ApiRows ==
    {[pm25 |-> a, pm10 |-> b, no2 |-> c] :
        a \in {Absent, Val(Micro(20)), Val(Micro(120))},
        b \in {Absent, Val(Micro(180))},
        c \in {Absent, Val(Micro(50))}}

\* the answers of the API: none (an error or no results), or the
\* measurements of one or two timestamps
ApiResults ==
    {<<>>} \cup {<<r>> : r \in ApiRows} \cup {<<r, s>> : r, s \in ApiRows}

CollectorCities == {"Delhi", "Chennai", "Pune"}

\* the multipliers of the generated rows, in quarters
Multipliers == {2, 4, 5, 6}

RangeEnds == 1..2

InitCollector ==
    /\ pc = "collect"
    /\ request \in [city : CollectorCities, results : ApiResults]
    /\ response = NoResponse
    /\ AqiIdle
    /\ FeatIdle
    /\ ModelIdle
    /\ HealthIdle
    /\ DbIdle

GetCurrentAqi ==
    /\ pc = "collect"
    /\ pc' = "collected"
    /\ \E draw \in [{"pm25", "pm10", "no2", "aqi"} -> RangeEnds] :
         response' = [op |-> "get_current_aqi",
                      path |-> IF request.results # <<>> THEN "api"
                               ELSE "synthetic",
                      rows |-> get_current_aqi(request.city, request.results,
                                               draw)]
    /\ UNCHANGED <<request, aqiVars, featVars, modelVars, healthVars, dbVars>>

GetHistoricalData ==
    /\ pc = "collect"
    /\ pc' = "collected"
    /\ \E m1 \in Multipliers, m2 \in Multipliers :
         response' = [op |-> "get_historical_data",
                      path |-> IF request.results # <<>> THEN "api"
                               ELSE "synthetic",
                      rows |-> get_historical_data(request.city,
                                                   request.results, <<m1, m2>>)]
    /\ UNCHANGED <<request, aqiVars, featVars, modelVars, healthVars, dbVars>>

NextCollector ==
    \/ GetCurrentAqi
    \/ GetHistoricalData

SpecCollector == InitCollector /\ [][NextCollector]_vars

(***************************************************************************)
(* The database machine: a table and a data source are drawn and           *)
(* save_air_quality_measurement is applied to them, again and again on the *)
(* same stored table.                                                      *)
(***************************************************************************)
DbColumns ==
    <<"city", "timestamp", "location", "latitude", "longitude", "aqi",
      "pm25", "pm10", "no2", "so2", "o3", "co">>

\* a row of one station: its hour, its coordinates and its measurements
DbRow(ts, coordinate, value) ==
    [c \in Range(DbColumns) |->
        IF c = "city" THEN "Delhi"
        ELSE IF c = "location" THEN "Delhi Central"
        ELSE IF c = "timestamp" THEN ts
        ELSE IF c \in {"latitude", "longitude"} THEN coordinate
        ELSE value]

DbRows ==
    {DbRow(ts, coordinate, value) :
        ts \in 1..2, coordinate \in {Val(28), Val(29)},
        value \in {Val(100), NaN}}

\* the tables drawn: no row, one row or two
DbTables ==
    {EmptyFrame} \cup {[columns |-> DbColumns, rows |-> <<r>>] : r \in DbRows}
        \cup {[columns |-> DbColumns, rows |-> <<r, s>>] : r, s \in DbRows}

DataSources == {"API", "synthetic"}

\* how many calls are made on the same stored table
MaxSaves == 2

\* what may go wrong in a call on a table of n rows
Failures(n) ==
    {NoFailure} \cup [at : {"connect", "commit"}, row : {0}]
        \cup [at : {"row"}, row : 1..n]

InitDb ==
    /\ pc = "db"
    /\ DbIdle
    /\ AqiIdle
    /\ FeatIdle
    /\ ModelIdle
    /\ HealthIdle
    /\ CollectorIdle

CallSave ==
    /\ pc = "db"
    /\ save.calls < MaxSaves
    /\ pc' = "save_called"
    /\ \E data \in DbTables, data_source \in DataSources :
         save' = [NoSave EXCEPT !.calls = save.calls + 1, !.data = data,
                                !.data_source = data_source,
                                !.before = measurements]
    /\ UNCHANGED <<measurements, aqiVars, featVars, modelVars, healthVars, collectorVars>>

SaveAirQualityMeasurement ==
    /\ pc = "save_called"
    /\ pc' = "db"
    /\ \E failure \in Failures(Len(save.data.rows)) :
         LET result == save_air_quality_measurement(measurements, save.data,
                                                    save.data_source, failure)
         IN  /\ measurements' = result.table
             /\ save' = [save EXCEPT !.failure = failure,
                                     !.outcome = result.outcome]
    /\ UNCHANGED <<aqiVars, featVars, modelVars, healthVars, collectorVars>>

NextDb ==
    \/ CallSave
    \/ SaveAirQualityMeasurement

SpecDb == InitDb /\ [][NextDb]_vars

(***************************************************************************)
(* Claims about the AQI derivation.                                        *)
(***************************************************************************)
\* the sub-index the interpolation formula gives a reading inside a bracket
Formula(pollutant, c) ==
    Interpolate(breakpoints[pollutant][MatchingBracket(pollutant, c)], c)

AvailableSet(r) == {p \in PollutantSet : Available(r, p)}

AllMatched(r) ==
    \A p \in AvailableSet(r) : MatchingBracket(p, r[p].c) # 0

\* C1: for a row whose available readings of pm25, pm10, no2 each lie in a
\* bracket, _calculate_aqi returns the maximum of their interpolated
\* sub-indices; the row {pm25: 35.4, pm10: 54, no2: 53} yields exactly 100.
C1_MaxOfSubIndices ==
    (pc = "aqi" /\ AvailableSet(row) # {} /\ AllMatched(row)) =>
        /\ \A p \in AvailableSet(row) : RatLeq(Formula(p, row[p].c), aqi)
        /\ \E p \in AvailableSet(row) : aqi = Formula(p, row[p].c)
        /\ (row = [pm25 |-> Val(354 * UnitsPerTenth),
                   pm10 |-> Val(540 * UnitsPerTenth),
                   no2 |-> Val(530 * UnitsPerTenth)]) => aqi = Whole(100)

\* C2: for one pollutant and readings 0 <= c1 <= c2 <= the upper bound of
\* its last bracket, the sub-index of c1 is <= the sub-index of c2, and from
\* the top of one bracket to the bottom of the next it changes by at most 1.
C2_MonotoneContinuous ==
    (pc = "subindex" /\ 0 <= subIn.c1 /\ subIn.c1 <= subIn.c2
        /\ subIn.c2 <= UpperBound(subIn.pollutant)) =>
        /\ RatLeq(subOut[1], subOut[2])
        /\ \A i \in 1..5 :
            (/\ subIn.c1 = BpHi(breakpoints[subIn.pollutant][i])
             /\ subIn.c2 = BpLo(breakpoints[subIn.pollutant][i + 1]))
                => RatWithinOne(subOut[1], subOut[2])

AboveLast(r) ==
    {p \in AvailableSet(r) : r[p].c > UpperBound(p)}

\* C3: a reading above the upper bound of the pollutant's last bracket gets
\* the sub-index 500, so the row's AQI is 500.
C3_AboveLastBracket ==
    (pc = "aqi" /\ AboveLast(row) # {}) =>
        /\ aqi = Whole(500)
        /\ \A p \in AboveLast(row) : get_aqi_value(row[p], p) = Whole(500)

C3_Witness ==
    /\ pc = "aqi"
    /\ row.pm25 = Val(UpperBound("pm25") + 1)
    /\ row.pm10 = Val(0)
    /\ row.no2 = NaN
    /\ aqi = Whole(500)

\* C4: when none of pm25, pm10, no2 is present and non-missing, the result
\* is the default 100, never 0.
C4_DefaultWhenNothingAvailable ==
    (pc = "aqi" /\ AvailableSet(row) = {}) => aqi = Whole(100)

C4_Witness ==
    /\ pc = "aqi"
    /\ row = [pm25 |-> NaN, pm10 |-> Absent, no2 |-> Absent]
    /\ aqi = Whole(100)

(***************************************************************************)
(* Claims about prepare_features.                                          *)
(***************************************************************************)
Timestamps(t) == {t.rows[i]["timestamp"].c : i \in 1..Len(t.rows)}

NoMissing(t) ==
    \A i \in 1..Len(t.rows) : \A c \in DOMAIN t.rows[i] : ~IsNa(t.rows[i][c])

\* one row per hour, no hour left out
UnbrokenHourly(t) ==
    /\ Cardinality(Timestamps(t)) = Len(t.rows)
    /\ \A x, y \in Timestamps(t) :
        \A h \in x..y : h \in Timestamps(t)

FirstHour(t) == CHOOSE x \in Timestamps(t) : \A y \in Timestamps(t) : x <= y

\* the row of table t at timestamp ts, cut down to the columns of t
InputRowAt(t, ts) ==
    CHOOSE r \in Range(t.rows) : r["timestamp"].c = ts

Restrict(r, cols) == [c \in cols |-> r[c]]

Warmup == 24

\* C5: for a single unbroken hourly series of N rows without missing
\* values, prepare_features returns exactly max(0, N - 24) rows: the rows
\* at the sorted positions 25..N, in that order.
C5_OutputLength ==
    (pc = "features" /\ NoMissing(df) /\ UnbrokenHourly(df)) =>
        LET n == Len(df.rows)
            out == prepared.rows
        IN  /\ prepared.err = "none"
            /\ Len(out) = (IF n > Warmup THEN n - Warmup ELSE 0)
            /\ \A k \in 1..Len(out) :
                /\ out[k]["timestamp"].c = FirstHour(df) + Warmup + k - 1
                /\ Restrict(out[k], Range(df.columns))
                      = InputRowAt(df, out[k]["timestamp"].c)

C5_Witness ==
    /\ pc = "features"
    /\ NoMissing(df)
    /\ Len(df.rows) = 26
    /\ df.rows[1]["timestamp"].c > df.rows[2]["timestamp"].c
    /\ Len(prepared.rows) = 2

RowsUpTo(t, ts) == {r \in Range(t.rows) : r["timestamp"].c <= ts}

OutputAt(p, ts) == {r \in Range(p.rows) : r["timestamp"].c = ts}

\* C6: no look-ahead: when two tables hold the same rows up to a timestamp,
\* prepare_features gives the row of that timestamp the same lag and
\* rolling features in both (and keeps it in both or drops it in both).
C6_NoLookAhead ==
    pc = "features" =>
        \A ts \in Timestamps(df) :
            RowsUpTo(df, ts) = RowsUpTo(df2, ts) =>
                OutputAt(prepared, ts) = OutputAt(prepared2, ts)

C6_Witness ==
    /\ pc = "features"
    /\ Len(prepared.rows) >= 2
    /\ Len(prepared2.rows) = Len(prepared.rows)
    /\ prepared.rows[1] = prepared2.rows[1]
    /\ prepared.rows[2] # prepared2.rows[2]

\* C7: for every series of 0 to 24 rows prepare_features returns an empty
\* table and raises no error.
C7_ShortSeriesEmpty ==
    (pc = "features" /\ Len(df.rows) <= Warmup) =>
        /\ prepared.err = "none"
        /\ prepared.rows = <<>>

C7_Witness ==
    /\ pc = "features"
    /\ Len(df.rows) = Warmup
    /\ prepared.err = "none"
    /\ prepared.rows = <<>>

(***************************************************************************)
(* Claims about training and prediction with the random forest.            *)
(***************************************************************************)
TrainReturned == pc = "ready" /\ call.op = "train" /\ call.err = "none"

PredictDone == pc = "ready" /\ call.op = "predict"

IdentifierColumns ==
    {"timestamp", "location", "city", "country", "latitude", "longitude"}

Position(s, x) == CHOOSE k \in 1..Len(s) : s[k] = x

\* C8: after a successful train_random_forest(df, target), feature_columns
\* is the columns of prepare_features(df), in their order and once each,
\* without the identifier columns and without the target.
C8_FeatureSchema ==
    TrainReturned =>
        LET cols == feature_columns.cols
        IN  /\ ~feature_columns.isNone
            /\ \A c \in Range(prepared.columns) :
                  c \in Range(cols)
                      <=> (c \notin IdentifierColumns /\ c # call.target)
            /\ Range(cols) \subseteq Range(prepared.columns)
            /\ \A i, j \in 1..Len(cols) :
                  i < j => Position(prepared.columns, cols[i])
                               < Position(prepared.columns, cols[j])

\* a training on the target pm10 returned: the prepared table holds
\* identifier columns and the target, and features were stored
C8_Witness ==
    /\ TrainReturned
    /\ call.target = "pm10"
    /\ {"timestamp", "city", "location", "pm10"} \subseteq Range(prepared.columns)
    /\ "aqi" \in Range(feature_columns.cols)
    /\ Len(feature_columns.cols) > Len(df.columns)

PreparedTimestamps == {prepared.rows[k]["timestamp"].c : k \in 1..Len(prepared.rows)}

\* C9: after a successful train_random_forest, no training row is later
\* than a test row, the test rows are the last fifth (rounded up) of the
\* prepared rows, and the scaler was fitted on exactly the training rows.
C9_ChronologicalSplit ==
    TrainReturned =>
        LET n == Len(prepared.rows)
            n_test == Len(call.test)
        IN  /\ \A i \in 1..Len(call.train), j \in 1..n_test :
                  call.train[i] <= call.test[j]
            /\ TestOneIn * n_test >= n
            /\ TestOneIn * (n_test - 1) < n
            /\ Len(call.train) + n_test = n
            /\ Range(call.train) \cup Range(call.test) = PreparedTimestamps
            /\ \A t \in Range(call.test), r \in PreparedTimestamps :
                  r \in Range(call.test) \/ r <= t
            /\ scaler.fitted
            /\ scaler.fit_rows = call.train

\* a training returned on a table that was passed latest row first, with
\* several training rows and a test row
C9_Witness ==
    /\ TrainReturned
    /\ df.rows[1]["timestamp"].c > df.rows[Len(df.rows)]["timestamp"].c
    /\ Len(call.train) >= 2
    /\ Len(call.test) >= 1
    /\ scaler.fit_rows = call.train

SchemaErrors == {"KeyError", "FeatureMismatch"}

\* C10: once a training has succeeded, predict_next_day_rf on data whose
\* prepared table has every column of the trained feature schema does not
\* fail with a schema error, and on data whose prepared table lacks one of
\* them it fails and returns no forecast.
C10_SchemaContract ==
    (PredictDone /\ ~last_trained.isNone /\ ~IsEmpty(prepared)) =>
        /\ Range(last_trained.cols) \subseteq Range(prepared.columns)
              => call.err \notin SchemaErrors
        /\ ~(Range(last_trained.cols) \subseteq Range(prepared.columns))
              => (call.err # "none" /\ call.forecast = NoForecast)

\* C11: every forecast predict_next_day_rf returns has predicted_aqi >= 0
\* and the interval [predicted_aqi - 25, predicted_aqi + 25].
C11_SymmetricInterval ==
    (PredictDone /\ call.err = "none") =>
        /\ call.forecast.predicted_aqi >= 0
        /\ call.forecast.prediction_interval =
              <<call.forecast.predicted_aqi - 25, call.forecast.predicted_aqi + 25>>

(***************************************************************************)
(* Claims about the ARIMA path and the order of calls.                     *)
(***************************************************************************)
TrainArimaDone == pc = "ready" /\ call.op = "train_arima"

PredictArimaDone == pc = "ready" /\ call.op = "predict_arima"

\* C13: predict_next_day_rf returns a forecast only after a
\* train_random_forest on the instance has succeeded, predict_next_day_arima
\* only after a train_arima has succeeded; otherwise the call fails with the
\* not-trained error.
C13_TrainBeforePredict ==
    /\ PredictDone =>
          /\ call.err = "none" => "train" \in succeeded
          /\ "train" \notin succeeded => call.err = "NotTrained"
    /\ PredictArimaDone =>
          /\ call.err = "none" => "train_arima" \in succeeded
          /\ "train_arima" \notin succeeded => call.err = "NotTrained"

\* predict_next_day_arima was refused on an instance whose forest is trained
\* and whose ARIMA model was built by a training that then failed in fit
C13_Witness ==
    /\ PredictArimaDone
    /\ call.err = "NotTrained"
    /\ ~arima_model.isNone
    /\ succeeded = {"train"}

(***************************************************************************)
(* Claims about the health risk analysis.                                  *)
(***************************************************************************)
ScoreReturned == pc = "returned" /\ hout.op = "calculate_health_risk_score"

PopulationsReturned ==
    pc = "returned" /\ hout.op = "get_vulnerable_populations_at_risk"

MetricsReturned ==
    pc = "returned" /\ hout.op = "calculate_health_impact_metrics"

RecommendationsReturned ==
    pc = "returned" /\ hout.op = "generate_health_recommendations"

\* the band of an AQI value: 1 for <= 50, ..., 5 for <= 300, 6 above
BandOf(aqi_value) ==
    1 + Cardinality({e \in {50, 100, 150, 200, 300} : aqi_value > e})

\* the two step functions of the claim, in hundredths
BaseRiskSteps == <<10, 30, 60, 80, 95, 100>>
GatingRiskSteps == <<5, 15, 35, 60, 85, 100>>

EntriesUse(entries, aqi_value, steps) ==
    \A k \in 1..Len(entries) :
        entries[k].risk_level
            = steps[BandOf(aqi_value)] * vulnerability_factors[entries[k].group]

\* C14: calculate_health_risk_score takes its base risk from the steps
\* 0.1 / 0.3 / 0.6 / 0.8 / 0.95 / 1.0, get_vulnerable_populations_at_risk
\* takes its risk from the steps 0.05 / 0.15 / 0.35 / 0.60 / 0.85 / 1.0, over
\* the bands <= 50, <= 100, <= 150, <= 200, <= 300 and above.
C14_TwoStepTables ==
    /\ ScoreReturned =>
          /\ hout.first.base_risk = BaseRiskSteps[BandOf(hin.aqi1)]
          /\ hout.second.base_risk = BaseRiskSteps[BandOf(hin.aqi2)]
    /\ PopulationsReturned =>
          /\ EntriesUse(hout.first, hin.aqi1, GatingRiskSteps)
          /\ EntriesUse(hout.second, hin.aqi2, GatingRiskSteps)

\* both operations were applied in a band where the two tables differ
C14_Witness ==
    \/ /\ ScoreReturned
       /\ hin.aqi1 = 300 /\ hin.aqi2 = 301
       /\ hout.first.base_risk = 95 /\ hout.second.base_risk = 100
    \/ /\ PopulationsReturned
       /\ hin.aqi1 = 150
       /\ Len(hout.first) = 6
       /\ hout.first[1].risk_level = 35 * 18

\* the share-weighted sums of the claim: sum of multiplier * share (in
\* Tenths * PerMille) and sum of share (in PerMille) over the groups
RECURSIVE SumOverGroups(_, _)
SumOverGroups(f, S) ==
    IF S = {} THEN 0
    ELSE LET g == CHOOSE x \in S : TRUE
         IN  f[g] + SumOverGroups(f, S \ {g})

ClaimedScore(aqi_value, city) ==
    LET d == city_demographics[city]
        weighted == [g \in Range(Groups) |-> vulnerability_factors[g] * d[g]]
        shares == [g \in Range(Groups) |-> d[g]]
        perUnit == Frac(SumOverGroups(weighted, Range(Groups)),
                        10 * SumOverGroups(shares, Range(Groups)))
        adjusted == FracTimes(perUnit, 10000 + 3 * d.low_income_percentage, 10000)
        raw == FracTimes(adjusted, BaseRiskSteps[BandOf(aqi_value)], 100)
    IN  IF raw.n >= raw.d THEN [n |-> 1, d |-> 1] ELSE raw

\* C15: the score is min(W * (1 + low_income_percentage / 100 * 0.3), 1.0)
\* with W the share-weighted average of base_risk * multiplier, and it is
\* > 0 and <= 1.0.
C15_WeightedScore ==
    ScoreReturned =>
        /\ hin.city \in DOMAIN city_demographics =>
              /\ hout.first.final_risk = ClaimedScore(hin.aqi1, hin.city)
              /\ hout.second.final_risk = ClaimedScore(hin.aqi2, hin.city)
        /\ \A r \in {hout.first.final_risk, hout.second.final_risk} :
              r.n > 0 /\ r.n <= r.d

\* a score below the cap and a capped score for one city
C15_Witness ==
    /\ ScoreReturned
    /\ hin.city = "Chennai"
    /\ hin.aqi1 = 100
    /\ hin.aqi2 = 101
    /\ hout.first.final_risk.n < hout.first.final_risk.d
    /\ hout.second.final_risk = [n |-> 1, d |-> 1]

\* C16: the score does not decrease when the AQI increases; at AQI 0 the
\* base risk is 0.1 and the score is less than the score at AQI 400.
C16_MonotoneInAqi ==
    ScoreReturned =>
        /\ hin.aqi1 <= hin.aqi2 =>
              FracLeq(hout.first.final_risk, hout.second.final_risk)
        /\ hin.aqi1 = 0 => hout.first.base_risk = 10
        /\ (hin.aqi1 = 0 /\ hin.aqi2 >= 400) =>
              /\ FracLeq(hout.first.final_risk, hout.second.final_risk)
              /\ hout.first.final_risk # hout.second.final_risk

\* the scores of one city at AQI 0 and at the greatest AQI drawn
C16_Witness ==
    /\ ScoreReturned
    /\ hin.city = "Mumbai"
    /\ hin.aqi1 = 0
    /\ hin.aqi2 >= 400
    /\ hout.first.final_risk.n < hout.first.final_risk.d
    /\ hout.second.final_risk = [n |-> 1, d |-> 1]

\* C17: for a city name that is not in the demographics table,
\* calculate_health_risk_score, get_vulnerable_populations_at_risk and
\* calculate_health_impact_metrics return what they return for 'Delhi' with
\* the same other arguments.
C17_UnknownCityAsDelhi ==
    (pc = "returned" /\ hin.city \notin DOMAIN city_demographics) =>
        /\ ScoreReturned =>
              /\ hout.first = calculate_health_risk_score(hin.aqi1, "Delhi")
              /\ hout.second = calculate_health_risk_score(hin.aqi2, "Delhi")
        /\ PopulationsReturned =>
              \E round_total \in BOOLEAN, round_count \in BOOLEAN :
                  /\ hout.first = get_vulnerable_populations_at_risk(
                                      hin.aqi1, "Delhi", round_total, round_count)
                  /\ hout.second = get_vulnerable_populations_at_risk(
                                      hin.aqi2, "Delhi", round_total, round_count)
        /\ MetricsReturned =>
              \E round_down \in BOOLEAN :
                  /\ hout.first = calculate_health_impact_metrics(
                                      hin.data1, "Delhi", round_down)
                  /\ hout.second = calculate_health_impact_metrics(
                                      hin.data2, "Delhi", round_down)

\* health impact metrics were computed for a city that is not in the table
C17_Witness ==
    /\ MetricsReturned
    /\ hin.city = "Pune"
    /\ ~hout.first.empty
    /\ hout.first.city = "Delhi"
    /\ hout.first.population = 32900000
    /\ hout.first.excess_deaths_annual > 0

\* avg1 <= avg2 for the averages of two tables whose pm25 cells are not all
\* missing
AverageLeq(x, y) == x.sum * y.count <= y.sum * x.count

\* count is int() of the float whose exact value is num / den: the floor, or
\* one less where the exact value is whole
IsIntOf(count, num, den) ==
    /\ count * den <= num
    /\ num <= (count + 1) * den
    /\ (num < (count + 1) * den) \/ (count + 1 = num \div den)

ClaimedImpact(m) ==
    LET avg == m.average_pm25
        excess == avg.sum - 100 * avg.count
        people == m.population \div 100000
    IN  /\ m.excess_deaths_annual >= 0
        /\ m.excess_respiratory_cases >= 0
        /\ m.economic_impact >= 0
        /\ m.economic_impact
              = m.excess_deaths_annual * (3500000 \div 25000)
                  + m.excess_respiratory_cases
        /\ (avg.count = 0 \/ excess <= 0) =>
              /\ m.excess_deaths_annual = 0
              /\ m.excess_respiratory_cases = 0
              /\ m.economic_impact = 0
        /\ (avg.count > 0 /\ excess > 0) =>
              \* population * 0.008 * (avg - 10) / 10 * 0.06
              /\ IsIntOf(m.excess_deaths_annual, people * 48 * excess,
                         100 * avg.count)
              \* population * 0.15 * (avg - 10) / 10 * 0.12
              /\ IsIntOf(m.excess_respiratory_cases, people * 180 * excess,
                         10 * avg.count)

\* C18: for non-empty data the excess deaths, the excess respiratory cases
\* and the economic impact (counted in units of 25000 rupees) are the
\* claimed expressions of the average PM2.5; they are never negative, 0 when
\* the average is <= 10, and do not decrease when the average increases.
C18_ImpactMetrics ==
    MetricsReturned =>
        /\ ~hout.first.empty => ClaimedImpact(hout.first)
        /\ ~hout.second.empty => ClaimedImpact(hout.second)
        /\ (/\ ~hout.first.empty /\ ~hout.second.empty
            /\ hout.first.average_pm25.count > 0
            /\ hout.second.average_pm25.count > 0
            /\ AverageLeq(hout.first.average_pm25, hout.second.average_pm25)) =>
              /\ hout.first.excess_deaths_annual
                    <= hout.second.excess_deaths_annual
              /\ hout.first.excess_respiratory_cases
                    <= hout.second.excess_respiratory_cases
              /\ hout.first.economic_impact <= hout.second.economic_impact

\* an average below the guideline and one above it
C18_Witness ==
    /\ MetricsReturned
    /\ hout.first.average_pm25 = [sum |-> 99, count |-> 1]
    /\ hout.second.average_pm25 = [sum |-> 250, count |-> 1]
    /\ hout.first.excess_deaths_annual = 0
    /\ hout.second.excess_deaths_annual > 0
    /\ hout.second.economic_impact > hout.second.excess_respiratory_cases

\* C19: two AQI values on opposite sides of one of the thresholds 50, 100,
\* 150, 200 and 300 do not get the same recommendation list for the same
\* city.
C19_SixBands ==
    RecommendationsReturned =>
        \A e \in {50, 100, 150, 200, 300} :
            (hin.aqi1 <= e /\ e < hin.aqi2) => hout.first # hout.second


(***************************************************************************)
(* Claims about the collected measurements.                                *)
(***************************************************************************)
Collected == pc = "collected"

\* _calculate_aqi applied to the pm25, pm10 and no2 values of a returned row
RowAqi(r) == calculate_aqi([p \in PollutantSet |-> r[p]])

AqiDerived(rows) == \A k \in 1..Len(rows) : rows[k].aqi = RowAqi(rows[k])

\* C20: in every row returned by get_current_aqi and get_historical_data,
\* on the API path and on the synthetic fallback path alike, the aqi field
\* equals _calculate_aqi applied to the row's pm25, pm10 and no2 values.
C20_AqiDerived == Collected => AqiDerived(response.rows)

\* on the API path the aqi field of every returned row is derived
AqiDerivedFromApi ==
    (Collected /\ response.path = "api") => AqiDerived(response.rows)

\* a measurement has been returned on the API path
ApiCollected ==
    /\ Collected
    /\ response.path = "api"
    /\ Len(response.rows) = 2
    /\ response.rows[1].aqi # response.rows[2].aqi


(***************************************************************************)
(* Claims about tables of more than one city.                              *)
(***************************************************************************)
FeaturesDone == pc = "features" /\ prepared.err = "none"

\* the rows of the sorted table that are of the city of row i
CitySeries(sorted, i) ==
    SelectSeq(sorted, LAMBDA r : r["city"] = sorted[i]["city"])

\* the position of row i in the series of its city
CityPosition(sorted, i) ==
    Cardinality({j \in 1..i : sorted[j]["city"] = sorted[i]["city"]})

SeriesFeatures(cols) == LagFeatures(cols) \o RollingFeatures(cols)

\* the lag and rolling cells of output row r are those of its city's series
FromOwnCity(sorted, r) ==
    LET i == CHOOSE j \in 1..Len(sorted) :
                 sorted[j]["timestamp"] = r["timestamp"]
        series == CitySeries(sorted, i)
        feats == SeriesFeatures(df.columns)
    IN  \A k \in 1..Len(feats) :
            r[feats[k].name] =
                FeatureValue(feats[k], series, CityPosition(sorted, i))

\* C21: when the table holds rows of more than one city, every lag value
\* and every rolling mean/std value of an output row is computed only from
\* rows of the same city.
C21_SameCityOnly ==
    FeaturesDone =>
        \A m \in 1..Len(prepared.rows) :
            FromOwnCity(SortValues(df.rows), prepared.rows[m])

\* a table of two cities has been prepared and rows came out
TwoCitiesPrepared ==
    /\ FeaturesDone
    /\ Len(prepared.rows) > 0
    /\ Cardinality({df.rows[j]["city"] : j \in 1..Len(df.rows)}) = 2


(***************************************************************************)
(* Claims about the rows prepare_features drops.                           *)
(***************************************************************************)
\* the row at sorted position i is in the output
Retained(sorted, i) ==
    \E m \in 1..Len(prepared.rows) :
        prepared.rows[m]["timestamp"] = sorted[i]["timestamp"]

\* every lag and rolling field of the row at sorted position i is defined
SeriesFieldsDefined(sorted, i) ==
    LET feats == SeriesFeatures(df.columns)
    IN  \A k \in 1..Len(feats) : ~IsNa(FeatureValue(feats[k], sorted, i))

\* the columns of the input that are neither the timestamp nor lagged
OptionalCols(cols) == Range(cols) \ ({"timestamp"} \cup Range(LagCols))

\* C22: a sorted input row appears in the output of prepare_features if and
\* only if all of its lag and rolling fields are defined, whatever the
\* values of its optional columns.
C22_DroppedIffUndefined ==
    FeaturesDone =>
        LET sorted == SortValues(df.rows)
        IN  \A i \in 1..Len(sorted) :
                Retained(sorted, i) <=> SeriesFieldsDefined(sorted, i)

\* the same, for tables whose optional cells are all present
DroppedIffUndefinedWhenComplete ==
    (FeaturesDone /\ \A j \in 1..Len(df.rows) :
                        \A c \in OptionalCols(df.columns) :
                            ~IsNa(df.rows[j][c]))
        => LET sorted == SortValues(df.rows)
           IN  \A i \in 1..Len(sorted) :
                   Retained(sorted, i) <=> SeriesFieldsDefined(sorted, i)

\* rows came out of a table with a missing pollutant reading
RetainedWithHole ==
    /\ FeaturesDone
    /\ Len(prepared.rows) > 0
    /\ \E j \in 1..Len(df.rows) : IsNa(df.rows[j]["aqi"])


(***************************************************************************)
(* Claims about the groups at risk.                                        *)
(***************************************************************************)
\* the risk threshold of the claim, in hundredths
ClaimedThreshold(aqi_value) ==
    IF aqi_value <= 100 THEN 10 ELSE IF aqi_value <= 150 THEN 30 ELSE 60

\* the groups the claim includes for an AQI value
ClaimedGroups(aqi_value) ==
    {g \in Range(Groups) :
        GatingRiskSteps[BandOf(aqi_value)] * vulnerability_factors[g]
            >= ClaimedThreshold(aqi_value) * Tenths}

GroupsOf(entries) == {entries[k].group : k \in 1..Len(entries)}

GroupsAsClaimed(entries, aqi_value) ==
    /\ GroupsOf(entries) = ClaimedGroups(aqi_value)
    /\ aqi_value > 50 => GroupsOf(entries) = Range(Groups)
    /\ aqi_value <= 50 => GroupsOf(entries) = {"respiratory_conditions"}

\* C23: a group is in the result of get_vulnerable_populations_at_risk if
\* and only if gating_risk(aqi) * multiplier >= risk_threshold(aqi), the
\* threshold being 0.1 / 0.3 / 0.6 for AQI <= 100 / <= 150 / above; so all six
\* groups are included for every AQI > 50 and only respiratory_conditions
\* for AQI <= 50.
C23_GroupInclusion ==
    PopulationsReturned =>
        /\ GroupsAsClaimed(hout.first, hin.aqi1)
        /\ GroupsAsClaimed(hout.second, hin.aqi2)

\* the operation returned one group for an AQI of 50 and six for 51
C23_Witness ==
    /\ PopulationsReturned
    /\ hin.aqi1 = 50 /\ hin.aqi2 = 51
    /\ Len(hout.first) = 1 /\ hout.first[1].group = "respiratory_conditions"
    /\ Len(hout.second) = 6


(***************************************************************************)
(* Claims about the parameters a prediction uses.                          *)
(***************************************************************************)
ForecastReturned == PredictDone /\ call.err = "none"

\* the schema, the scaler and the forest are those of the last training
\* that succeeded: the scaler was fitted on the columns of the schema, the
\* forest on as many
FromOneTraining ==
    /\ feature_columns = last_trained
    /\ scaler.fitted /\ scaler.feature_names_in = feature_columns.cols
    /\ rf_model.fitted /\ rf_model.n_features_in = Len(feature_columns.cols)

\* C24: with the calls on one instance serialized, every predict_next_day_rf
\* that returns a forecast uses a feature schema, a scaler and a forest that
\* one and the same train_random_forest call produced.
C24_OneTrainingPerForecast == ForecastReturned => FromOneTraining

\* the same, as long as no training has failed after one that succeeded
OneTrainingWithoutFailedRetrain ==
    (ForecastReturned /\ feature_columns = last_trained) => FromOneTraining

\* a forecast was returned
SomeForecast == ForecastReturned /\ FromOneTraining


(***************************************************************************)
(* Claims about what a call leaves unchanged.                              *)
(***************************************************************************)
TrainFailed == pc = "ready" /\ call.op = "train" /\ call.err # "none"

\* C25: a train_random_forest call that fails leaves feature_columns,
\* scaler, rf_model and is_trained as they were before the call.
C25_FailedTrainFrame ==
    [][TrainFailed' => UNCHANGED <<feature_columns, scaler, rf_model, is_trained>>]_vars

\* the same for the calls that fail before the feature columns are defined
\* (empty input, or no rows left after feature preparation)
EarlyFailedTrainFrame ==
    [][(TrainFailed' /\ call'.err \in {"NoData", "NoFeatures"})
          => UNCHANGED <<feature_columns, scaler, rf_model, is_trained>>]_vars

\* a training has failed on an instance trained before
RetrainFailed == TrainFailed /\ is_trained


(***************************************************************************)
(* Claims about saved and loaded models.                                   *)
(***************************************************************************)
\* C26: in every state of an AirQualityPredictor, is_trained implies that
\* rf_model, a fitted scaler and a non-empty feature_columns list are all
\* set; in particular after load_models restores what save_models wrote.
C26_TrainedMeansComplete ==
    (pc = "ready" /\ is_trained) =>
        /\ ~rf_model.isNone
        /\ scaler.fitted
        /\ ~feature_columns.isNone /\ feature_columns.cols # <<>>

\* a model was loaded into an instance
ModelLoaded == pc = "ready" /\ call.op = "load" /\ is_trained


(***************************************************************************)
(* Claims about the bounds of a forecast.                                  *)
(***************************************************************************)
ArimaForecastReturned == PredictArimaDone /\ call.err = "none"

OrderedEntry(e) ==
    /\ 0 <= e.lower_bound
    /\ e.lower_bound <= e.predicted_aqi
    /\ e.predicted_aqi <= e.upper_bound

\* C27: every forecast has ordered, non-negative bounds: for
\* predict_next_day_rf 0 <= interval_low <= predicted_aqi <= interval_high,
\* and for each hourly entry of predict_next_day_arima (hours numbered from
\* 1) 0 <= lower_bound <= predicted_aqi <= upper_bound, whatever the model
\* outputs.
C27_OrderedBounds ==
    /\ ForecastReturned =>
          /\ 0 <= call.forecast.prediction_interval[1]
          /\ call.forecast.prediction_interval[1] <= call.forecast.predicted_aqi
          /\ call.forecast.predicted_aqi <= call.forecast.prediction_interval[2]
    /\ ArimaForecastReturned =>
          \A i \in 1..Len(call.hourly) :
              call.hourly[i].hour = i /\ OrderedEntry(call.hourly[i])

\* the same, for the hours whose raw prediction is not negative
OrderedBoundsOfNonNegative ==
    /\ ForecastReturned =>
          /\ 0 <= call.forecast.prediction_interval[1]
          /\ call.forecast.prediction_interval[1] <= call.forecast.predicted_aqi
          /\ call.forecast.predicted_aqi <= call.forecast.prediction_interval[2]
    /\ ArimaForecastReturned =>
          \A i \in 1..Len(call.hourly) :
              call.raw[i] >= 0 =>
                  call.hourly[i].hour = i /\ OrderedEntry(call.hourly[i])

\* hourly forecasts were returned for predictions that are not negative
NonNegativeForecast ==
    /\ ArimaForecastReturned
    /\ Len(call.hourly) > 0
    /\ \A i \in 1..Len(call.raw) : call.raw[i] >= 0


(***************************************************************************)
(* Claims about the counts of people at risk.                              *)
(***************************************************************************)
\* risk_level is in Hundredths * Tenths
WithinGroup(e) ==
    /\ 0 <= e.at_risk_count
    /\ e.at_risk_count <= e.total_population
    /\ e.risk_level <= Hundredths * Tenths

AllWithinGroup(entries) == \A k \in 1..Len(entries) : WithinGroup(entries[k])

\* C28: for every AQI value, every city and every group entry returned by
\* get_vulnerable_populations_at_risk, 0 <= at_risk_count <= total_population
\* of the group and risk_level <= 1.0.
C28_CountWithinGroup ==
    PopulationsReturned =>
        AllWithinGroup(hout.first) /\ AllWithinGroup(hout.second)

\* the same, for AQI values up to 150
CountWithinGroupUpTo150 ==
    (PopulationsReturned /\ hin.aqi1 <= 150 /\ hin.aqi2 <= 150) =>
        AllWithinGroup(hout.first) /\ AllWithinGroup(hout.second)

\* entries were returned for AQI values up to 150
EntriesUpTo150 ==
    /\ PopulationsReturned
    /\ hin.aqi1 = 150 /\ Len(hout.first) = 6
    /\ hin.aqi2 = 0 /\ Len(hout.second) = 1


(***************************************************************************)
(* Claims about the range of the AQI.                                      *)
(***************************************************************************)
\* a reading that lies in no bracket of the pollutant: below zero, above
\* the last bracket, or strictly between two brackets
Unmatched(pollutant, c) ==
    \/ c < 0
    \/ c > UpperBound(pollutant)
    \/ \E i \in 1..5 : /\ BpHi(breakpoints[pollutant][i]) < c
                       /\ c < BpLo(breakpoints[pollutant][i + 1])

\* C29: for every row the value returned by _calculate_aqi is > 0 and
\* <= 500; a reading that matches no bracket (above the last, negative, or in
\* the gap between two) contributes the sub-index 500, and sub-indices of 0
\* are discarded, so a row whose available readings are all 0 yields the
\* default 100.
C29_AqiRange ==
    pc = "aqi" =>
        /\ RatLess(Whole(0), aqi) /\ RatLeq(aqi, Whole(500))
        /\ \A p \in AvailableSet(row) :
              Unmatched(p, row[p].c) =>
                  /\ get_aqi_value(row[p], p) = Whole(500)
                  /\ aqi = Whole(500)
        /\ (AvailableSet(row) # {} /\ \A p \in AvailableSet(row) : row[p].c = 0)
              => aqi = Whole(100)

\* a row with a reading in the gap above the first PM2.5 bracket (12.05
\* for a grid of 0.05) and a reading of 0 got the AQI 500
C29_Witness ==
    /\ pc = "aqi"
    /\ row.pm25 = Val(BpHi(breakpoints.pm25[1]) + 1)
    /\ row.pm10 = Val(0)
    /\ row.no2 = Val(0 - 1)
    /\ aqi = Whole(500)

(***************************************************************************)
(* Claims about the database.                                              *)
(***************************************************************************)
\* save_air_quality_measurement has returned or raised
SaveDone == pc = "db" /\ save.outcome.status # "none"

\* the last row of the table that has the key
LastWithKey(rows, key) ==
    rows[CHOOSE i \in 1..Len(rows) :
            /\ KeyOf(rows[i]) = key
            /\ \A j \in (i + 1)..Len(rows) : KeyOf(rows[j]) # key]

BatchKeys(rows) == {KeyOf(rows[i]) : i \in 1..Len(rows)}

\* nothing of the batch is persisted and the error reaches the caller
RolledBack ==
    (SaveDone /\ ~IsEmpty(save.data) /\ save.failure.at # "none") =>
        /\ save.outcome.status = "raised"
        /\ measurements = save.before

\* the cursor and the connection that were opened are closed, and an empty
\* table returns 0 without a connection
Closed ==
    SaveDone =>
        /\ save.outcome.connected =>
             save.outcome.cursor_closed /\ save.outcome.connection_closed
        /\ IsEmpty(save.data) =>
             /\ save.outcome.status = "returned"
             /\ save.outcome.count = 0
             /\ ~save.outcome.connected
             /\ measurements = save.before

\* the call has returned for a table with rows
Saved == SaveDone /\ ~IsEmpty(save.data) /\ save.outcome.status = "returned"

\* the rows of the other keys are as they were
OthersKept ==
    Saved =>
        /\ DOMAIN measurements = DOMAIN save.before \cup BatchKeys(save.data.rows)
        /\ \A key \in DOMAIN save.before \ BatchKeys(save.data.rows) :
             measurements[key] = save.before[key]

\* C30: save_air_quality_measurement is all-or-nothing: when a row or the
\* commit fails nothing of the batch is persisted and the error is raised;
\* on success the number of rows is returned and under every key of the
\* batch the stored values are those of the last row with that key; the
\* cursor and the connection are closed on every path, and an empty table
\* returns 0 without a connection.
C30_AllOrNothing ==
    /\ RolledBack
    /\ Closed
    /\ OthersKept
    /\ Saved =>
         /\ save.outcome.count = Len(save.data.rows)
         /\ \A key \in BatchKeys(save.data.rows) :
              measurements[key] = Parameters(LastWithKey(save.data.rows, key),
                                       save.data_source)

\* the same with the replacement as the statement makes it: the measurements
\* and the data source are those of the last row with the key, the
\* coordinates those of the first row stored under it
AllOrNothingUpdatedColumns ==
    /\ RolledBack
    /\ Closed
    /\ OthersKept
    /\ Saved =>
         /\ save.outcome.count = Len(save.data.rows)
         /\ \A key \in BatchKeys(save.data.rows) :
              LET last == Parameters(LastWithKey(save.data.rows, key),
                                     save.data_source)
                  first == IF key \in DOMAIN save.before THEN save.before[key]
                           ELSE Parameters(
                                  save.data.rows[
                                    CHOOSE i \in 1..Len(save.data.rows) :
                                      /\ KeyOf(save.data.rows[i]) = key
                                      /\ \A j \in 1..(i - 1) :
                                           KeyOf(save.data.rows[j]) # key],
                                  save.data_source)
              IN  measurements[key] =
                    [c \in StoredColumns |->
                        IF c \in UpdatedColumns THEN last[c] ELSE first[c]]

\* a row has replaced a stored row of its key that had other coordinates
ReplacedOtherCoordinates ==
    /\ Saved
    /\ \E key \in BatchKeys(save.data.rows) \cap DOMAIN save.before :
         save.before[key]["latitude"]
            # LastWithKey(save.data.rows, key)["latitude"]

\* a call has failed at its second row or at the commit
FailedAfterFirstRow ==
    /\ SaveDone
    /\ Len(save.data.rows) = 2
    /\ \/ save.failure.at = "commit"
       \/ save.failure.at = "row" /\ save.failure.row = 2

====
